---- MODULE Spec2Model ----
(***************************************************************************)
(* Send-rate governed queue draining of the mail platform:                 *)
(*   - the rate limiter      api/shared/send.py   check_send_limit         *)
(*   - the list writer       api/campaigns.py     write_campaign_lists     *)
(*   - the queue drainer     api/campaigns.py     check_camps              *)
(*   - campaign activation   api/campaigns.py     CampaignStart,           *)
(*                                                run_scheduled            *)
(* One module, several specifications over the same variables; a           *)
(* specification leaves the variables of the other components idle.        *)
(***************************************************************************)
EXTENDS Integers, Sequences, FiniteSets, TLC

\* ------------------------------------------------------------------------
\* Values
\* ------------------------------------------------------------------------

\* Python None / SQL null / an absent redis key.  Every use is guarded by an
\* explicit "# None" test, exactly where the code tests "is not None".
None == -9999

\* A limit stored as a string (an empty form field): fix_empty_limit maps it
\* to None.
StrVal == -8888

\* "allowed = 9999999999999" of the source; Python integers are unbounded, the
\* model checker's are 32 bit wide, so the model uses the largest round value
\* that fits.  Every modelled request is far below it.
AllowedInit == 999999999

Companies == {"c1"}
Routes == {"r1", "r2"}
Domains == {"a.com", "b.com"}
Procs == {"p1", "p2"}

\* Number of check_send_limit calls of one behaviour of the limiter.
MaxCalls == 2

Min2(a, b) == IF a < b THEN a ELSE b

VARIABLES
    company,      \* cid -> the company record (limits, paid, paused, ...)
    throttles,    \* the active domain throttles (load_domain_throttles)
    targets,      \* the <<route, domain>> pairs the callers ask for
    redis,        \* key -> value, None when the key does not exist
    lpc,          \* p -> position of p inside check_send_limit
    larg,         \* p -> arguments of the running call
    lrd,          \* p -> values read so far (kind -> value)
    lidx,         \* p -> index of the next GET
    ldirty,       \* p -> a watched key was written since WATCH
    granted,      \* <<cid, route, domain>> -> sum of the values returned
                  \* by the calls for it                         (history)
    ncalls,       \* number of calls started                     (history)
    redis0        \* the counter store when the behaviour began  (history)

VARIABLES
    camp,         \* campid -> the campaign record
    queue,        \* campqueue: the set of queue entry rows
    blocks,       \* sendid -> the list block written for it: its campaign
                  \*      and the recipient domains of its rows, in order
    now,          \* the clock: datetime.utcnow() of the next timestamp
    lock,         \* holder of the advisory lock CHECK_CAMPS_LOCK, or "none"
    dpc,          \* p -> position of p inside check_camps
    dlast,        \* p -> (lastcid, lastcampid, lastdomain)
    dpage,        \* p -> queue_items still to handle in this iteration
    alltasks,     \* p -> alltasks of this iteration
    dundo,        \* p -> rows as they were before p's open transaction
                  \*      changed them (what a rollback restores)
    tasks,        \* the task queue: send_queued_camp tasks not yet run
    sent,         \* entry key -> <<offset, tosend>> of every task
                  \*      dispatched for it, in order            (history)
    lastgrant,    \* p -> [key, allowed, total] of the group p handled
                  \*      last: what the limiter returned and what was
                  \*      sent for it                            (history)
    nenv,         \* failed iterations, cancel requests and sink
                  \*      reports so far                         (history)
    cpc,          \* campid -> position of its CampaignCancel request
    delivered     \* sendid -> rows of its list block handed to the
                  \*      sink, in order of sending              (history)

drainVars == <<camp, queue, blocks, now, lock, dpc, dlast, dpage, alltasks,
               dundo, tasks, sent, lastgrant, nenv, cpc, delivered>>

VARIABLES
    slock,        \* holder of the advisory lock RUN_SCHEDULED_LOCK, or "none"
    spc,          \* p -> position of p inside run_scheduled
    sids,         \* p -> ids of the tick still to handle
    sundo,        \* p -> campaign rows as they were before p's open
                  \*      transaction changed them
    rpc,          \* request -> position inside CampaignStart.on_post
    rarg,         \* request -> the campaign it is for
    stasks,       \* the task queue: campaign_start tasks not yet run
    tpc,          \* position of the worker inside campaign_start
    targ,         \* the campaign of the running campaign_start
    nact,         \* campid -> conditional updates that succeeded  (history)
    ndisp,        \* campid -> campaign_start tasks dispatched     (history)
    nticks,       \* run_scheduled invocations so far              (history)
    nposts        \* CampaignStart requests so far                 (history)

startVars == <<slock, spc, sids, sundo, rpc, rarg, stasks, tpc, targ, nact,
               ndisp, nticks, nposts>>

VARIABLES
    wrows,        \* rows: the filtered recipients, their domains in order
    wsinks,       \* sinkobjs: the pct of every sink, in order
    wpc,          \* position inside the split loop of write_campaign_lists
    wsi,          \* index of obj in sinkobjs
    wcnt,         \* cnt
    wpct,         \* pct
    wlistcnt,     \* listcnt
    wout,         \* outfile: the rows written for obj so far
    wblocks,      \* the list blocks written: <<sink index, rows>>
    countbydomain \* countbydomain[sendid]: domain -> rows counted

splitVars == <<wrows, wsinks, wpc, wsi, wcnt, wpct, wlistcnt, wout, wblocks,
               countbydomain>>

VARIABLES
    eev,          \* the event the provider or the sink delivers, again and again
    camplogs,     \* table camplogs: rows (campid, email, cmd)
    txnlogs,      \* table txnlogs: rows (tag, msgid, email, cmd)
    spevents,     \* table sparkpost_events: event ids
    cprops,       \* campaigns.data of the campaign: its counters
    tstats,       \* table txnstats, summed over its rows: the columns
    unsublogs,    \* table unsublogs: email -> flags (one company)
    epc,          \* position of every event handler
    euniq,        \* unique (write_list), the insert's result (write_txn)
    ndeliv,       \* deliveries of the event handed to a handler
    nwrites,      \* calls of write_list / write_txn
    ntracked,     \* deliveries that went past the link tracking test
    nhooks,       \* calls of send_webhooks
    ntagops,      \* calls of contacts.update_tags
    nsuppops,     \* upserts into unsublogs
    nsuppnew,     \* upserts that created the row
    nraised,      \* handlers an exception ended
    nlists,       \* calls of write_campaign_lists
    lateblock     \* emails written to a list block after their event's record

evVars == <<eev, nwrites, camplogs, txnlogs, spevents, cprops, tstats, unsublogs, epc,
            euniq, ndeliv, ntracked, nhooks, ntagops, nsuppops, nsuppnew,
            nraised, nlists, lateblock>>

VARIABLES
    trow,         \* the tracking id has its row in mgtracking / sptracking
    pending,      \* redis list tracking-<id>: the buffered events
    kpc,          \* position of every tracking request
    whpc,         \* position of the delivery-confirmation handler
    whlist,       \* pendingevents of the handler
    nproc,        \* calls of process_track_event for every request
    nconf         \* delivery confirmations of the provider

trkVars == <<trow, pending, kpc, whpc, whlist, nproc, nconf>>

\* One send: the call of an adapter by send_backend_mail (a test or
\* transactional message) or by send_queued_camp (one task of a campaign).
VARIABLES
    xcall,        \* the arguments of the call: campid, write_err, raise_err
                  \*      and the policytype of the chosen backend
    xpc,          \* position of the send
    xleft,        \* provider calls the recipient loop still has to make
    xcanceled,    \* the campaign's canceled flag
    xfresh,       \* the flag was read unset since the previous provider
                  \*      call of this send                      (history)
    xrec,         \* finished_at and error of the campaign record: written?
    xraised,      \* an exception left the adapter
    xfatal,       \* the adapter's exception handler ran        (history)
    xsent,        \* provider calls made                        (history)
    xlate         \* provider calls begun with the flag set and not
                  \*      re-read since the previous call       (history)

sndVars == <<xcall, xpc, xleft, xcanceled, xfresh, xrec, xraised, xfatal, xsent,
             xlate>>

\* The domain throttles of a company as the store holds them, and the
\* effective limits computed from them for one route and domain.
VARIABLES
    dtrows,       \* the rows of domainthrottles, in the order find() yields
    dttarget,     \* <<route, domain>> of the computation
    dtlimits      \* <<the effective limits>> once computed, <<>> before

thrVars == <<dtrows, dttarget, dtlimits>>

\* The groups of variables of the pure computations and the small protocols.
\* One gather: the taskgather row, the taskgatherdata rows, and the tasks
\* that complete its sub-units.
VARIABLES
    gremove,      \* the remove argument of the gather's completions
    grow,         \* the taskgather row exists
    gcount,       \* its count
    gdata,        \* the taskgatherdata rows of the gather: <<unit, delivery>>
    gpc,          \* <<unit, delivery>> -> position of that task run
    gret,         \* <<unit, delivery>> -> the rows its select returned
    ghand,        \* <<unit, delivery>> -> <<list>> once gather_complete
                  \*      returned a list to it                  (history)
    ndup          \* duplicate deliveries so far                 (history)

gatVars == <<gremove, grow, gcount, gdata, gpc, gret, ghand, ndup>>

\* One run of a provider adapter over its recipients.
VARIABLES
    acall,        \* the arguments of the run
    alen,         \* the length of its recipient stream
    ai,           \* the recipient the loop is at
    apc,          \* "loop", "done"
    conn,         \* state["conn"] is not None
    conn_sent,    \* state["conn_sent"]
    aout,         \* recipient -> the stats counted for it
    arec,         \* the campaign record: finished_at and error written
    araised,      \* the run raised to its caller
    nconn,        \* connections opened so far                   (history)
    asent,        \* the messages the relay accepted, each with
                  \*      the connection it went over             (history)
    afailed,      \* provider calls rejected so far               (history)
    acalls,       \* the recipients of each call of a batch adapter (history)
    aother        \* another statement of the adapter raised      (history)

rlyVars == <<acall, alen, ai, apc, conn, conn_sent, aout, arec, araised, nconn,
             asent, afailed, acalls, aother>>

\* The last step of write_campaign_lists for one campaign: the task that
\* completes the campaign's gather registers the sinks and inserts the queue
\* entries, while the campaign is canceled and the drainer runs.
VARIABLES
    fjob,         \* the result of the gather: the sinks of the policy and
                  \*      the list block written for each
    funique,      \* campqueue has a unique key (cid, campid, sendid, domain)
    fcamp,        \* the campaign record
    fqueue,       \* campqueue: the rows of the campaign, in order of insertion
    fbody,        \* bodies written to the data bucket
    fpc,          \* position of write_campaign_lists
    fsi,          \* index of obj in sinkobjs
    fcpc,         \* position of the CampaignCancel request
    fins,         \* every row inserted so far                   (history)
    fafter,       \* what was written with the campaign canceled (history)
    fndrain       \* entries the drainer has dispatched          (history)

finVars == <<fjob, funique, fcamp, fqueue, fbody, fpc, fsi, fcpc, fins, fafter,
             fndrain>>

\* One provider send task and its deliveries: the rendered body in the
\* transfer bucket and the runs of the task.
VARIABLES
    btask,        \* the adapter the task runs
    bstore,       \* the body object exists under htmlkey
    bpc,          \* delivery -> position of that run of the task
    btx           \* delivery -> recipients it has transmitted to (history)

bodVars == <<btask, bstore, bpc, btx>>

\* The routing of one campaign: the rules of its route, the task groups
\* campaign_start makes of them, and what the list writer of each group
\* keeps of the recipients.
VARIABLES
    rrules,       \* route["published"]["rules"]
    rgroups,      \* taskgroups
    rtpc,          \* position: "start", "write", "done", "raised"
    rgi,          \* the task group whose list writer runs next
    rwritten      \* task group -> recipients its filter_result keeps

rtVars == <<rrules, rgroups, rtpc, rgi, rwritten>>

moreVars == <<thrVars, gatVars, rlyVars, finVars, bodVars, rtVars>>

extVars == <<evVars, trkVars, sndVars, moreVars>>


\* The variables of a campaign the drainer and the start paths share.
drainRest == <<queue, blocks, lock, dpc, dlast, dpage, alltasks, dundo, tasks,
               sent, lastgrant, nenv, cpc, delivered>>

limVars == <<company, throttles, targets, redis, lpc, larg, lrd, lidx, ldirty,
             granted, ncalls, redis0>>

\* What the event handlers leave alone, and the tracking paths.
notEv == <<limVars, drainVars, startVars, splitVars, trkVars, sndVars, moreVars>>
notTrk == <<limVars, drainVars, startVars, splitVars, evVars, sndVars, moreVars>>
notSnd == <<limVars, drainVars, startVars, splitVars, evVars, trkVars, moreVars>>
mainVars == <<limVars, drainVars, startVars, splitVars, evVars, trkVars, sndVars>>
notThr == <<mainVars, gatVars, rlyVars, finVars, bodVars, rtVars>>
notGat == <<mainVars, thrVars, rlyVars, finVars, bodVars, rtVars>>
notRly == <<mainVars, thrVars, gatVars, finVars, bodVars, rtVars>>
notFin == <<mainVars, thrVars, gatVars, rlyVars, bodVars, rtVars>>
notBod == <<mainVars, thrVars, gatVars, rlyVars, finVars, rtVars>>
notRt == <<mainVars, thrVars, gatVars, rlyVars, finVars, bodVars>>

\* ------------------------------------------------------------------------
\* Rate limiter: check_send_limit
\* ------------------------------------------------------------------------

fix_empty_limit(limit) == IF limit = StrVal THEN None ELSE limit

\* fnmatch(domain, dp) for the patterns of the model: a literal domain or "*".
fnmatch(domain, dp) == dp = "*" \/ dp = domain

SeqHas(s, P(_)) == \E i \in 1..Len(s) : P(s[i])

\* "if cur is None or (dt is not None and dt < cur): cur = dt"
TakeLower(cur, dt) == IF cur = None \/ (dt # None /\ dt < cur) THEN dt ELSE cur

NoDomainLimits ==
    [min |-> None, hour |-> None, day |-> None,
     minexact |-> None, hourexact |-> None, dayexact |-> None]

\* One iteration of "for dt in domainthrottles".
ThrottleStep(acc, dt, route, domain) ==
    IF dt.route # route THEN acc
    ELSE
      LET domainexactmatch == SeqHas(dt.domainsparsed, LAMBDA dp : dp = domain)
          domainmatch == SeqHas(dt.domainsparsed, LAMBDA dp : fnmatch(domain, dp))
          dtmin == fix_empty_limit(dt.minlimit)
          dthour == fix_empty_limit(dt.hourlimit)
          dtday == fix_empty_limit(dt.daylimit)
          a1 == IF domainexactmatch
                THEN [acc EXCEPT !.minexact = TakeLower(@, dtmin),
                                 !.hourexact = TakeLower(@, dthour),
                                 !.dayexact = TakeLower(@, dtday)]
                ELSE acc
      IN IF domainmatch
         THEN [a1 EXCEPT !.min = TakeLower(@, dtmin),
                         !.hour = TakeLower(@, dthour),
                         !.day = TakeLower(@, dtday)]
         ELSE a1

RECURSIVE ThrottleFold(_, _, _, _, _)
ThrottleFold(acc, dts, i, route, domain) ==
    IF i > Len(dts) THEN acc
    ELSE ThrottleFold(ThrottleStep(acc, dts[i], route, domain), dts, i + 1,
                      route, domain)

\* Mutant: the lowest value over every matching throttle, exact or glob.
DomainLimits_Lowest(dts, route, domain) ==
    LET a == ThrottleFold(NoDomainLimits, dts, 1, route, domain)
    IN [min |-> a.min, hour |-> a.hour, day |-> a.day]

\* The effective domain limits (domainminlimit, domainhourlimit,
\* domaindaylimit): the exact-match value wins when there is one.
DomainLimits(dts, route, domain) ==
    LET a == ThrottleFold(NoDomainLimits, dts, 1, route, domain)
    IN [min |-> IF a.minexact # None THEN a.minexact ELSE a.min,
        hour |-> IF a.hourexact # None THEN a.hourexact ELSE a.hour,
        day |-> IF a.dayexact # None THEN a.dayexact ELSE a.day]

\* The limits of one call: the company's four windows, the domain's three.
Limits(co, dts, route, domain) ==
    LET dl == DomainLimits(dts, route, domain)
    IN [min |-> fix_empty_limit(co.minlimit),
        hour |-> fix_empty_limit(co.hourlimit),
        day |-> fix_empty_limit(co.daylimit),
        month |-> fix_empty_limit(co.monthlimit),
        dmin |-> dl.min, dhour |-> dl.hour, dday |-> dl.day]

WindowKinds == <<"min", "hour", "day", "month", "dmin", "dhour", "dday">>
CompanyKinds == {"min", "hour", "day", "month"}
DomainKinds == {"dmin", "dhour", "dday"}
CreditKinds == {"credits", "credits_expire"}

\* Mutant: "< 0" for "<= 0", and the review flag is not looked at.
ZeroConfig_Strict(co, lim) ==
    \/ \E k \in CompanyKinds \cup DomainKinds : lim[k] # None /\ lim[k] < 0
    \/ co.paused
    \/ co.banned
    \/ (~co.paid /\ co.trialend = "past")

\* Lines 253-276: the configuration alone makes the call return 0.
ZeroConfig(co, lim) ==
    \/ \E k \in CompanyKinds \cup DomainKinds : lim[k] # None /\ lim[k] <= 0
    \/ co.paused
    \/ co.banned
    \/ co.inreview
    \/ (~co.paid /\ co.trialend = "past")

\* The redis keys: the window part of a key name (minute, hour, day, month of
\* localtime) is fixed, the model covers one window.
Key(kind, cid, route, domain) ==
    IF kind \in DomainKinds THEN <<kind, cid, route, domain>>
    ELSE <<kind, cid, "-", "-">>

AllKeys ==
    {Key(k, c, r, d) : k \in CompanyKinds \cup DomainKinds \cup CreditKinds
                            \cup {"limithit"},
                       c \in Companies, r \in Routes, d \in Domains}

\* "int(x or 0)"
IntOr0(v) == IF v = None THEN 0 ELSE v

\* Mutant: the company counters are not watched.
WatchedKeys_NoCompany(co, cid, route, domain) ==
    {Key(k, cid, route, domain) : k \in DomainKinds}

\* The keys a call WATCHes (lines 294-303).
WatchedKeys(co, cid, route, domain) ==
    {Key(k, cid, route, domain) : k \in CompanyKinds \cup DomainKinds}
    \cup (IF co.paid THEN {Key(k, cid, route, domain) : k \in CreditKinds}
          ELSE {})

\* The kinds a call GETs, in order (lines 305-333).
ReadKinds(co, lim) ==
    <<"min", "hour", "day", "month">>
    \o (IF lim.dmin # None THEN <<"dmin">> ELSE <<>>)
    \o (IF lim.dhour # None THEN <<"dhour">> ELSE <<>>)
    \o (IF lim.dday # None THEN <<"dday">> ELSE <<>>)
    \o (IF co.paid THEN <<"credits", "credits_expire">> ELSE <<>>)

NoReads ==
    [k \in CompanyKinds \cup DomainKinds \cup CreditKinds |->
        IF k \in DomainKinds THEN None ELSE 0]

\* Mutant: a counter that equals its limit does not block.
Blocked_Over(co, lim, rd) ==
    \/ \E k \in CompanyKinds : lim[k] # None /\ rd[k] > lim[k]
    \/ \E k \in DomainKinds : lim[k] # None /\ rd[k] # None /\ rd[k] > lim[k]
    \/ (co.paid /\ rd["credits"] + rd["credits_expire"] < 0)

\* Lines 337-388: a counter has reached its limit, or the credits are used up.
Blocked(co, lim, rd) ==
    \/ \E k \in CompanyKinds : lim[k] # None /\ rd[k] >= lim[k]
    \/ \E k \in DomainKinds : lim[k] # None /\ rd[k] # None /\ rd[k] >= lim[k]
    \/ (co.paid /\ rd["credits"] + rd["credits_expire"] <= 0)

RECURSIVE AllowedFold(_, _, _, _)
AllowedFold(allowed, lim, rd, i) ==
    IF i > Len(WindowKinds) THEN allowed
    ELSE LET k == WindowKinds[i]
             a == IF lim[k] # None /\ rd[k] # None
                  THEN Min2(allowed, lim[k] - rd[k])
                  ELSE allowed
         IN AllowedFold(a, lim, rd, i + 1)

\* Mutant: the per-send cap is not applied.
Result_NoCap(co, lim, rd, requested) ==
    LET a1 == AllowedFold(AllowedInit, lim, rd, 1)
        a2 == IF co.paid
              THEN Min2(a1, rd["credits"] + rd["credits_expire"])
              ELSE a1
    IN Min2(requested, a2)

\* Lines 390-411: result = min(requested, allowed).
Result(co, lim, rd, requested) ==
    LET a1 == AllowedFold(AllowedInit, lim, rd, 1)
        a2 == IF co.paid
              THEN Min2(a1, rd["credits"] + rd["credits_expire"])
              ELSE a1
        persendlimit == fix_empty_limit(co.persendlimit)
        a3 == IF persendlimit # None THEN Min2(a2, persendlimit) ELSE a2
    IN Min2(requested, a3)

\* Mutant: the expiring pool is debited first.
NewCredits_ExpireFirst(rd, result) ==
    LET e == rd["credits_expire"] - result
    IN IF e < 0
       THEN [credits |-> rd["credits"] + e, credits_expire |-> 0]
       ELSE [credits |-> rd["credits"], credits_expire |-> e]

\* Lines 413-417: the debit of the two credit pools.
NewCredits(rd, result) ==
    LET c == rd["credits"] - result
    IN IF c < 0
       THEN [credits |-> 0, credits_expire |-> rd["credits_expire"] + c]
       ELSE [credits |-> c, credits_expire |-> rd["credits_expire"]]

\* Lines 436-439: the day counter crosses the day limit with this grant.
LimitHit(lim, rd, result) ==
    LET daylimitok == lim.day # None /\ rd["day"] < lim.day
    IN daylimitok /\ lim.day # None /\ rd["day"] + result >= lim.day

\* Lines 422-439: the keys the MULTI block SETs.
WrittenKeys(co, lim, rd, cid, route, domain, result) ==
    {Key(k, cid, route, domain) : k \in CompanyKinds}
    \cup {Key(k, cid, route, domain) : k \in {d \in DomainKinds : rd[d] # None}}
    \cup (IF co.paid THEN {Key(k, cid, route, domain) : k \in CreditKinds}
          ELSE {})
    \cup (IF LimitHit(lim, rd, result)
          THEN {Key("limithit", cid, route, domain)} ELSE {})

\* Lines 422-441: the store after EXEC; every SET writes the value computed
\* from what the call read.
ExecStore(store, co, lim, rd, cid, route, domain, result) ==
    LET cr == NewCredits(rd, result)
        w == WrittenKeys(co, lim, rd, cid, route, domain, result)
    IN [k \in AllKeys |->
          IF k \notin w THEN store[k]
          ELSE IF k[1] = "credits" THEN cr.credits
          ELSE IF k[1] = "credits_expire" THEN cr.credits_expire
          ELSE IF k[1] = "limithit" THEN 1
          ELSE rd[k[1]] + result]

\* What the GETs of a call return when nothing interleaves.
ReadAll(store, co, lim, cid, route, domain) ==
    [k \in CompanyKinds \cup DomainKinds \cup CreditKinds |->
        IF k \in DomainKinds
        THEN (IF lim[k] # None THEN IntOr0(store[Key(k, cid, route, domain)])
              ELSE None)
        ELSE IF k \in CreditKinds
        THEN (IF co.paid THEN IntOr0(store[Key(k, cid, route, domain)]) ELSE 0)
        ELSE IntOr0(store[Key(k, cid, route, domain)])]

\* check_send_limit run with no concurrent writer (the drainer's call):
\* the value returned and the store left behind.
check_send_limit(store, co, dts, cid, route, domain, requested) ==
    LET lim == Limits(co, dts, route, domain)
        rd == ReadAll(store, co, lim, cid, route, domain)
        result == Result(co, lim, rd, requested)
    IN IF ZeroConfig(co, lim) \/ Blocked(co, lim, rd)
       THEN [result |-> 0, store |-> store]
       ELSE [result |-> result,
             store |-> ExecStore(store, co, lim, rd, cid, route, domain, result)]

\* ---- the concurrent callers ---------------------------------------------

NoArg == [cid |-> "c1", route |-> "r1", domain |-> "a.com", requested |-> 0]

ArgLimits(p) ==
    Limits(company[larg[p].cid], throttles, larg[p].route, larg[p].domain)

\* A call returns v: the history records it, the locals of the call are gone.
Returned(p, a, v) ==
    /\ granted' = [granted EXCEPT ![<<a.cid, a.route, a.domain>>] = @ + v]
    /\ lpc' = [lpc EXCEPT ![p] = "idle"]
    /\ larg' = [larg EXCEPT ![p] = NoArg]
    /\ lrd' = [lrd EXCEPT ![p] = NoReads]
    /\ lidx' = [lidx EXCEPT ![p] = 1]

\* Lines 162-276: entry; the configuration checks come before any redis use.
LimCall(p, cid, route, domain, requested) ==
    LET a == [cid |-> cid, route |-> route, domain |-> domain,
              requested |-> requested]
        zero == ZeroConfig(company[cid], Limits(company[cid], throttles, route, domain))
    IN /\ lpc[p] = "idle"
       /\ ncalls < MaxCalls
       /\ ncalls' = ncalls + 1
       /\ IF zero
          THEN Returned(p, a, 0)
          ELSE /\ lpc' = [lpc EXCEPT ![p] = "watch"]
               /\ larg' = [larg EXCEPT ![p] = a]
               /\ UNCHANGED <<lrd, lidx, granted>>
       /\ UNCHANGED <<company, throttles, targets, redis, ldirty, redis0>>
       /\ UNCHANGED <<drainVars, startVars, splitVars, extVars>>

\* Lines 294-303: WATCH.
LimWatch(p) ==
    /\ lpc[p] = "watch"
    /\ lpc' = [lpc EXCEPT ![p] = "get"]
    /\ ldirty' = [ldirty EXCEPT ![p] = FALSE]
    /\ lidx' = [lidx EXCEPT ![p] = 1]
    /\ lrd' = [lrd EXCEPT ![p] = NoReads]
    /\ UNCHANGED <<company, throttles, targets, redis, larg, granted, ncalls, redis0>>
    /\ UNCHANGED <<drainVars, startVars, splitVars, extVars>>

\* Lines 305-333: one GET.
LimGet(p) ==
    LET a == larg[p]
        kinds == ReadKinds(company[a.cid], ArgLimits(p))
        k == kinds[lidx[p]]
    IN /\ lpc[p] = "get"
       /\ lrd' = [lrd EXCEPT ![p][k] = IntOr0(redis[Key(k, a.cid, a.route, a.domain)])]
       /\ lidx' = [lidx EXCEPT ![p] = @ + 1]
       /\ lpc' = [lpc EXCEPT ![p] = IF lidx[p] = Len(kinds) THEN "exec" ELSE "get"]
       /\ UNCHANGED <<company, throttles, targets, redis, larg, ldirty, granted, ncalls,
                      redis0>>
       /\ UNCHANGED <<drainVars, startVars, splitVars, extVars>>

\* Lines 335-388: after the last GET, a reached limit returns 0 at once; the
\* pipeline is left without EXEC.
LimBlocked(p) ==
    LET a == larg[p]
    IN /\ lpc[p] = "exec"
       /\ Blocked(company[a.cid], ArgLimits(p), lrd[p])
       /\ Returned(p, a, 0)
       /\ ldirty' = [ldirty EXCEPT ![p] = FALSE]
       /\ UNCHANGED <<company, throttles, targets, redis, ncalls, redis0>>
       /\ UNCHANGED <<drainVars, startVars, splitVars, extVars>>

\* Lines 390-444: MULTI ... EXEC with no watched key written since WATCH.
LimExec(p) ==
    LET a == larg[p]
        co == company[a.cid]
        lim == ArgLimits(p)
        result == Result(co, lim, lrd[p], a.requested)
        w == WrittenKeys(co, lim, lrd[p], a.cid, a.route, a.domain, result)
    IN /\ lpc[p] = "exec"
       /\ ~Blocked(co, lim, lrd[p])
       /\ ~ldirty[p]
       /\ redis' = ExecStore(redis, co, lim, lrd[p], a.cid, a.route, a.domain, result)
       /\ ldirty' = [q \in Procs |->
            IF q # p /\ lpc[q] \in {"get", "exec"}
               /\ w \cap WatchedKeys(company[larg[q].cid], larg[q].cid,
                                     larg[q].route, larg[q].domain) # {}
            THEN TRUE ELSE ldirty[q]]
       /\ Returned(p, a, result)
       /\ UNCHANGED <<company, throttles, targets, ncalls, redis0>>
       /\ UNCHANGED <<drainVars, startVars, splitVars, extVars>>

\* Lines 445-447: EXEC raises WatchError, the whole check is retried.
LimWatchError(p) ==
    LET a == larg[p]
    IN /\ lpc[p] = "exec"
       /\ ~Blocked(company[a.cid], ArgLimits(p), lrd[p])
       /\ ldirty[p]
       /\ lpc' = [lpc EXCEPT ![p] = "watch"]
       /\ UNCHANGED <<company, throttles, targets, redis, larg, lrd, lidx, ldirty,
                      granted, ncalls, redis0>>
       /\ UNCHANGED <<drainVars, startVars, splitVars, extVars>>

\* ------------------------------------------------------------------------
\* Queue drainer: check_camps
\* ------------------------------------------------------------------------

Camps == {"k1", "k2"}
Sinks == {"x1", "x2"}
SendIds == {"s1", "s2"}

\* max_send_limit of the environment (default 1000), scaled down.
MAX_SEND_LIMIT == 2

\* "limit 200" of the page query, scaled down.
PageLimit == 2

\* Events from outside in one behaviour: failed drain iterations, failed
\* send tasks, cancel requests, sink queue reports.
MaxEnv == 2

\* The order of (cid, campid, domain) rows: position in these lists.
CidOrder == <<"c1">>
CampOrder == <<"k1", "k2">>
DomainOrder == <<"a.com", "b.com">>

Rank(order, x) == CHOOSE i \in 1..Len(order) : order[i] = x

\* lastcid is None
NoKey == <<>>

GroupKey(e) == <<e.cid, e.campid, e.domain>>
EntryKey(e) == <<e.cid, e.campid, e.sendid, e.domain>>
EntryKeys == Companies \X Camps \X SendIds \X Domains

\* row(a) > row(b) of the page query
RowGreater(a, b) ==
    LET ra == <<Rank(CidOrder, a[1]), Rank(CampOrder, a[2]), Rank(DomainOrder, a[3])>>
        rb == <<Rank(CidOrder, b[1]), Rank(CampOrder, b[2]), Rank(DomainOrder, b[3])>>
    IN \/ ra[1] > rb[1]
       \/ (ra[1] = rb[1] /\ ra[2] > rb[2])
       \/ (ra[1] = rb[1] /\ ra[2] = rb[2] /\ ra[3] > rb[3])

RECURSIVE SortKeys(_)
SortKeys(S) ==
    IF S = {} THEN <<>>
    ELSE LET m == CHOOSE x \in S : \A y \in S \ {x} : RowGreater(y, x)
         IN <<m>> \o SortKeys(S \ {m})

RECURSIVE SumRemaining(_)
SumRemaining(S) ==
    IF S = {} THEN 0
    ELSE LET e == CHOOSE x \in S : TRUE IN e.remaining + SumRemaining(S \ {e})

FirstN(s, n) == SubSeq(s, 1, Min2(n, Len(s)))

\* Lines 2927-2944: the page query.  Rows of the queue with remaining > 0,
\* joined with their campaign, after the last key seen, grouped by (cid,
\* campid, route, domain), ordered, at most PageLimit groups.
PageQuery(q, cs, last) ==
    LET rows == {e \in q : /\ e.remaining > 0
                           /\ cs[e.campid].cid = e.cid
                           /\ (last = NoKey \/ RowGreater(GroupKey(e), last))}
        keys == SortKeys({GroupKey(e) : e \in rows})
        group(k) == [cid |-> k[1], campid |-> k[2], route |-> cs[k[2]].route,
                     domain |-> k[3],
                     cnt |-> SumRemaining({e \in rows : GroupKey(e) = k})]
    IN FirstN([i \in 1..Len(keys) |-> group(keys[i])], PageLimit)

\* Lines 2973-2980: the rows of one group.
Items(q, cid, campid, domain) ==
    {e \in q : e.cid = cid /\ e.campid = campid /\ e.domain = domain}

\* The query has no "order by": every order of the rows can come back.
RECURSIVE Orders(_)
Orders(S) ==
    IF S = {} THEN {<<>>}
    ELSE UNION {{<<e>> \o o : o \in Orders(S \ {e})} : e \in S}

\* Lines 2981-2987: cntperitem
CntPerItem(cnt, n) ==
    LET c == IF n > 0 THEN (cnt + n - 1) \div n ELSE 1
    IN IF c = 0 THEN 1 ELSE c

Task(e, offset, tosend) ==
    [cid |-> e.cid, campid |-> e.campid, sendid |-> e.sendid,
     domain |-> e.domain, offset |-> offset, tosend |-> tosend]

\* Lines 2997-3018: the pre-batching loop of the one-message-at-a-time
\* providers.
RECURSIVE PreBatch(_, _, _, _, _)
PreBatch(e, taskoffset, tasktosend, tasksent, tosend) ==
    IF ~(tasksent < tosend) THEN <<>>
    ELSE <<Task(e, taskoffset, tasktosend)>>
         \o PreBatch(e, taskoffset + tasktosend,
                     Min2(tosend - (tasksent + tasktosend), MAX_SEND_LIMIT),
                     tasksent + tasktosend, tosend)

\* Lines 2992-3031: the tasks of one entry's allotment.
ItemTasks(e, tosend) ==
    IF e.policytype \in {"ses", "smtprelay", "easylink"}
    THEN PreBatch(e, e.count - e.remaining, Min2(tosend, MAX_SEND_LIMIT), 0,
                  tosend)
    ELSE <<Task(e, e.count - e.remaining, tosend)>>

\* Lines 3064-3077: every sink of the campaign is drained.
AllSinksDone(c) == \A x \in Sinks : c.sinkstatus[x] # "false"

\* Lines 2988-3088: one iteration of "for sendid, sendcount, remaining, data
\* in items".  st carries cnt, the tables, the clock and the task list.
ItemStep(st, e, cntperitem) ==
    LET tosend == Min2(cntperitem, e.remaining)
        gone == e.remaining - tosend <= 0
        q1 == IF gone THEN st.queue \ {e}
              ELSE (st.queue \ {e}) \cup {[e EXCEPT !.remaining = @ - tosend]}
        sinkdone == gone /\ ~\E r \in q1 : /\ r.cid = e.cid
                                           /\ r.campid = e.campid
                                           /\ r.sinkid = e.sinkid
        c1 == IF sinkdone
              THEN [st.camp EXCEPT ![e.campid].sinkstatus[e.sinkid] = "true"]
              ELSE st.camp
        fin == sinkdone /\ AllSinksDone(c1[e.campid])
        c2 == IF fin THEN [c1 EXCEPT ![e.campid].finished_at = st.now] ELSE c1
    IN [cnt |-> st.cnt - tosend,
        queue |-> q1,
        camp |-> c2,
        now |-> IF fin THEN st.now + 1 ELSE st.now,
        tasks |-> st.tasks \o ItemTasks(e, tosend),
        total |-> st.total + tosend,
        touched |-> st.touched \cup {e},
        campsTouched |-> IF sinkdone THEN st.campsTouched \cup {e.campid}
                         ELSE st.campsTouched]

\* The loop over the items, left at "if cnt <= 0: break".
RECURSIVE ItemLoop(_, _, _, _)
ItemLoop(st, items, i, cntperitem) ==
    IF i > Len(items) THEN st
    ELSE LET s1 == ItemStep(st, items[i], cntperitem)
         IN IF s1.cnt <= 0 THEN s1 ELSE ItemLoop(s1, items, i + 1, cntperitem)

NoBlock == [campid |-> "none", rows |-> <<>>]

\* A campaign row: data->>'sent_at', 'finished_at', 'canceled', 'error',
\* 'sinkstatus' (sinkid -> "true" / "false", "none" for a key not in it),
\* 'processed_schedule', 'started' (FALSE for a key not in the row); due:
\* 'when' is 'schedule' and 'scheduled_for' is reached.
NoCamp ==
    [cid |-> "c1", route |-> "r1", sent_at |-> None, finished_at |-> None,
     canceled |-> FALSE, error |-> "none",
     sinkstatus |-> [x \in Sinks |-> "none"],
     due |-> FALSE, processed_schedule |-> FALSE, started |-> FALSE]

\* ---- the drainer's steps ------------------------------------------------

NoUndo == [q |-> {}, c |-> {}]
NoGrant == [key |-> NoKey, allowed |-> 0, total |-> 0]

\* Rows an open transaction has written: another session's write to one of
\* them waits for the transaction to end.
LockedCamps == UNION {{pr[1] : pr \in dundo[p].c} : p \in Procs}
LockedEntries == UNION {{EntryKey(e) : e \in dundo[p].q} : p \in Procs}

\* The queue and the campaigns after p's transaction is rolled back.
RolledBackQueue(p) ==
    {r \in queue : EntryKey(r) \notin {EntryKey(e) : e \in dundo[p].q}}
    \cup dundo[p].q
RolledBackCamp(p) ==
    [k \in Camps |->
        IF \E pr \in dundo[p].c : pr[1] = k
        THEN (CHOOSE pr \in dundo[p].c : pr[1] = k)[2]
        ELSE camp[k]]

\* run_task(send_queued_camp, ...) for the tasks ts, in order: each task is
\* handed to the task queue, the history notes its range.
RECURSIVE RunTasks(_, _, _)
RunTasks(st, ts, i) ==
    IF i > Len(ts) THEN st
    ELSE LET t == ts[i]
             k == <<t.cid, t.campid, t.sendid, t.domain>>
         IN RunTasks([tasks |-> Append(st.tasks, t),
                      sent |-> [st.sent EXCEPT ![k] =
                                   Append(@, <<t.offset, t.tosend>>)]],
                     ts, i + 1)

TryLock_Always(holder) == TRUE

\* Line 2914: pg_try_advisory_xact_lock is granted when no session holds
\* the lock.
TryLock(holder) == holder = "none"

\* Lines 2910-2917, lock free: pg_try_advisory_xact_lock succeeds.
DrainLock(p) ==
    /\ dpc[p] = "idle"
    /\ TryLock(lock)
    /\ lock' = p
    /\ dpc' = [dpc EXCEPT ![p] = "page"]
    /\ UNCHANGED <<camp, queue, blocks, now, dlast, dpage, alltasks, dundo,
                   tasks, sent, lastgrant, nenv, cpc, delivered>>
    /\ UNCHANGED <<limVars, startVars, splitVars, extVars>>

\* Lines 2913-2917, lock taken: "check_camps already running", return.
DrainBusy(p) ==
    /\ dpc[p] = "idle"
    /\ ~TryLock(lock)
    /\ UNCHANGED drainVars
    /\ UNCHANGED <<limVars, startVars, splitVars, extVars>>

\* Lines 2919-2947: top of the while loop.  The cursor is reset, the page is
\* read with it; an empty page ends the pass and with it the lock.
DrainPage(p) ==
    LET last == NoKey
        page == PageQuery(queue, camp, last)
    IN /\ dpc[p] = "page"
       /\ dlast' = [dlast EXCEPT ![p] = last]
       /\ IF Len(page) = 0
          THEN /\ dpc' = [dpc EXCEPT ![p] = "idle"]
               /\ lock' = IF lock = p THEN "none" ELSE lock
               /\ UNCHANGED <<dpage, alltasks>>
          ELSE /\ dpc' = [dpc EXCEPT ![p] = "group"]
               /\ dpage' = [dpage EXCEPT ![p] = page]
               /\ alltasks' = [alltasks EXCEPT ![p] = <<>>]
               /\ UNCHANGED lock
       /\ lastgrant' = [lastgrant EXCEPT ![p] = NoGrant]
       /\ UNCHANGED <<camp, queue, blocks, now, dundo, tasks, sent, nenv, cpc,
                      delivered>>
       /\ UNCHANGED <<limVars, startVars, splitVars, extVars>>

\* Lines 2973-3091: the limiter allowed r.result > 0 for the group g; its
\* rows came back in the order items and the loop over them left st.
GroupItems(p, g, r, st) ==
    /\ queue' = st.queue
    /\ camp' = st.camp
    /\ now' = st.now
    /\ alltasks' = [alltasks EXCEPT ![p] = st.tasks]
    /\ dundo' = [dundo EXCEPT ![p] =
          [q |-> @.q \cup st.touched,
           c |-> @.c \cup {<<k, camp[k]>> :
                   k \in st.campsTouched \ {pr[1] : pr \in @.c}}]]
    /\ lastgrant' = [lastgrant EXCEPT ![p] =
          [key |-> <<g.cid, g.campid, g.domain>>,
           allowed |-> r.result, total |-> st.total]]

\* The state the loop over the items starts from.
LoopStart(p, cnt) ==
    [cnt |-> cnt, queue |-> queue, camp |-> camp, now |-> now,
     tasks |-> alltasks[p], total |-> 0, touched |-> {}, campsTouched |-> {}]

\* Lines 2949-3091: the group g of the page, r being what check_send_limit
\* returned and the counter store it left.
GroupStep(p, g, r) ==
    /\ dlast' = [dlast EXCEPT ![p] = <<g.cid, g.campid, g.domain>>]
    /\ redis' = r.store
    /\ IF r.result > 0
       THEN \E items \in Orders(Items(queue, g.cid, g.campid, g.domain)) :
              GroupItems(p, g, r,
                         ItemLoop(LoopStart(p, r.result), items, 1,
                                  CntPerItem(r.result, Len(items))))
       ELSE /\ UNCHANGED <<queue, camp, now, alltasks, dundo>>
            /\ lastgrant' = [lastgrant EXCEPT ![p] =
                  [key |-> <<g.cid, g.campid, g.domain>>,
                   allowed |-> 0, total |-> 0]]

\* Lines 2949-3091: one group of the page: the limiter, then the items.
DrainGroup(p) ==
    /\ dpc[p] = "group"
    /\ GroupStep(p, Head(dpage[p]),
                 check_send_limit(redis, company[Head(dpage[p]).cid], throttles,
                                  Head(dpage[p]).cid, Head(dpage[p]).route,
                                  Head(dpage[p]).domain, Head(dpage[p]).cnt))
    /\ dpage' = [dpage EXCEPT ![p] = Tail(@)]
    /\ dpc' = [dpc EXCEPT ![p] = IF Len(dpage[p]) = 1 THEN "dispatch" ELSE "group"]
    /\ UNCHANGED <<blocks, lock, tasks, sent, nenv, cpc, delivered>>
    /\ UNCHANGED <<company, throttles, targets, lpc, larg, lrd, lidx, ldirty,
                   granted, ncalls, redis0>>
    /\ UNCHANGED <<startVars, splitVars, extVars>>

\* Line 3093 and the end of "with db.transaction()": every task of the
\* iteration is dispatched, then the iteration commits.
DrainDispatch(p) ==
    LET st == RunTasks([tasks |-> tasks, sent |-> sent], alltasks[p], 1)
    IN /\ dpc[p] = "dispatch"
       /\ tasks' = st.tasks
       /\ sent' = st.sent
       /\ alltasks' = [alltasks EXCEPT ![p] = <<>>]
       /\ dundo' = [dundo EXCEPT ![p] = NoUndo]
       /\ dpc' = [dpc EXCEPT ![p] = "page"]
       /\ lastgrant' = [lastgrant EXCEPT ![p] = NoGrant]
       /\ UNCHANGED <<camp, queue, blocks, now, lock, dlast, dpage, nenv, cpc,
                      delivered>>
       /\ UNCHANGED <<limVars, startVars, splitVars, extVars>>

\* Lines 3094-3095: an exception inside the pass (the store, the limiter's
\* redis, the task queue: run_task raising after k tasks were handed over).
\* The iteration's transaction is rolled back, the pass ends, the lock goes.
DrainFail(p, k) ==
    LET st == RunTasks([tasks |-> tasks, sent |-> sent],
                       SubSeq(alltasks[p], 1, k), 1)
    IN /\ dpc[p] \in {"page", "group", "dispatch"}
       /\ nenv < MaxEnv
       /\ k \in 0..Len(alltasks[p])
       /\ dpc[p] # "dispatch" => k = 0
       /\ nenv' = nenv + 1
       /\ tasks' = st.tasks
       /\ sent' = st.sent
       /\ queue' = RolledBackQueue(p)
       /\ camp' = RolledBackCamp(p)
       /\ dundo' = [dundo EXCEPT ![p] = NoUndo]
       /\ alltasks' = [alltasks EXCEPT ![p] = <<>>]
       /\ dpage' = [dpage EXCEPT ![p] = <<>>]
       /\ dpc' = [dpc EXCEPT ![p] = "idle"]
       /\ lock' = IF lock = p THEN "none" ELSE lock
       /\ dlast' = [dlast EXCEPT ![p] = NoKey]
       /\ lastgrant' = [lastgrant EXCEPT ![p] = NoGrant]
       /\ UNCHANGED <<blocks, now, cpc, delivered>>
       /\ UNCHANGED <<limVars, startVars, splitVars, extVars>>

\* ---- send tasks, cancel, the sink's queue report ------------------------

\* Lines 3195-3219: the rows send_queued_camp copies from the list block:
\* i is the row of the block the reader is at, c and written the counters
\* of the loop; the result is the rows written.
RECURSIVE ReadRows(_, _, _, _, _, _, _)
ReadRows(block, domain, offset, tosend, i, c, written) ==
    IF i > Len(block) THEN <<>>
    ELSE IF block[i] # domain
         THEN ReadRows(block, domain, offset, tosend, i + 1, c, written)
    ELSE IF c >= offset
         THEN <<i>> \o (IF written + 1 >= tosend THEN <<>>
                        ELSE ReadRows(block, domain, offset, tosend, i + 1,
                                      c + 1, written + 1))
    ELSE IF written >= tosend THEN <<>>
    ELSE ReadRows(block, domain, offset, tosend, i + 1, c + 1, written)

TaskRows(t) ==
    ReadRows(blocks[t.sendid].rows, t.domain, t.offset, t.tosend, 1, 0, 0)

\* A worker takes the task at the head of the task queue; send_queued_camp
\* copies its rows and, the campaign not being canceled (lines 3237-3241),
\* hands them to the sink.
TaskSend ==
    /\ tasks # <<>>
    /\ ~camp[Head(tasks).campid].canceled
    /\ tasks' = Tail(tasks)
    /\ delivered' = [delivered EXCEPT ![Head(tasks).sendid] =
                        @ \o TaskRows(Head(tasks))]
    /\ UNCHANGED <<camp, queue, blocks, now, lock, dpc, dlast, dpage, alltasks,
                   dundo, sent, lastgrant, nenv, cpc>>
    /\ UNCHANGED <<limVars, startVars, splitVars, extVars>>

\* Lines 3237-3241: the campaign is canceled, the task returns.
TaskCanceled ==
    /\ tasks # <<>>
    /\ camp[Head(tasks).campid].canceled
    /\ tasks' = Tail(tasks)
    /\ UNCHANGED <<camp, queue, blocks, now, lock, dpc, dlast, dpage, alltasks,
                   dundo, sent, lastgrant, nenv, cpc, delivered>>
    /\ UNCHANGED <<limVars, startVars, splitVars, extVars>>

\* Lines 3368-3373: send_queued_camp raises (sink not found, the object
\* store, the provider): finished_at and error are patched.
TaskError ==
    /\ tasks # <<>>
    /\ nenv < MaxEnv
    /\ Head(tasks).campid \notin LockedCamps
    /\ nenv' = nenv + 1
    /\ tasks' = Tail(tasks)
    /\ camp' = [camp EXCEPT ![Head(tasks).campid].finished_at = now,
                            ![Head(tasks).campid].error = "error"]
    /\ now' = now + 1
    /\ UNCHANGED <<queue, blocks, lock, dpc, dlast, dpage, alltasks, dundo,
                   sent, lastgrant, cpc, delivered>>
    /\ UNCHANGED <<limVars, startVars, splitVars, extVars>>

\* CampaignCancel.on_post, lines 1169-1181: the campaign was started; it is
\* marked canceled.
CancelMark(k) ==
    /\ cpc[k] = "idle"
    /\ nenv < MaxEnv
    /\ camp[k].sent_at # None
    /\ k \notin LockedCamps
    /\ nenv' = nenv + 1
    /\ camp' = [camp EXCEPT ![k].canceled = TRUE]
    /\ cpc' = [cpc EXCEPT ![k] = "delete"]
    /\ UNCHANGED <<queue, blocks, now, lock, dpc, dlast, dpage, alltasks, dundo,
                   tasks, sent, lastgrant, delivered>>
    /\ UNCHANGED <<limVars, startVars, splitVars, extVars>>

\* Lines 1183-1185: the campaign's queue rows are deleted.
CancelDelete(k) ==
    /\ cpc[k] = "delete"
    /\ ~\E key \in LockedEntries : key[2] = k
    /\ queue' = {e \in queue : ~(e.cid = camp[k].cid /\ e.campid = k)}
    /\ cpc' = [cpc EXCEPT ![k] = "sinks"]
    /\ UNCHANGED <<camp, blocks, now, lock, dpc, dlast, dpage, alltasks, dundo,
                   tasks, sent, lastgrant, nenv, delivered>>
    /\ UNCHANGED <<limVars, startVars, splitVars, extVars>>

\* Lines 1187-1212: every sink answered; error and finished_at are patched.
CancelFinish(k) ==
    /\ cpc[k] = "sinks"
    /\ k \notin LockedCamps
    /\ camp' = [camp EXCEPT ![k].error = "Canceled", ![k].finished_at = now]
    /\ now' = now + 1
    /\ cpc' = [cpc EXCEPT ![k] = "idle"]
    /\ UNCHANGED <<queue, blocks, lock, dpc, dlast, dpage, alltasks, dundo,
                   tasks, sent, lastgrant, nenv, delivered>>
    /\ UNCHANGED <<limVars, startVars, splitVars, extVars>>

\* Lines 1203-1207: a sink of the campaign cannot be reached; the request
\* ends with an error before the last patch.
CancelSinkError(k) ==
    /\ cpc[k] = "sinks"
    /\ \E x \in Sinks : camp[k].sinkstatus[x] # "none"
    /\ cpc' = [cpc EXCEPT ![k] = "idle"]
    /\ UNCHANGED <<camp, queue, blocks, now, lock, dpc, dlast, dpage, alltasks,
                   dundo, tasks, sent, lastgrant, nenv, delivered>>
    /\ UNCHANGED <<limVars, startVars, splitVars, extVars>>

\* events.py lines 1164-1194: sink x reports campaign k complete.  With no
\* queue row left for the sink its status is set, and with every sink done
\* finished_at is patched.
SinkReport(x, k) ==
    LET c1 == [camp[k] EXCEPT !.sinkstatus[x] = "true"]
        fin == AllSinksDone(c1)
    IN /\ nenv < MaxEnv
       /\ camp[k].sent_at # None
       /\ ~\E e \in queue : e.campid = k /\ e.sinkid = x
       /\ k \notin LockedCamps
       /\ nenv' = nenv + 1
       /\ camp' = [camp EXCEPT ![k] =
                     IF fin THEN [c1 EXCEPT !.finished_at = now] ELSE c1]
       /\ now' = IF fin THEN now + 1 ELSE now
       /\ UNCHANGED <<queue, blocks, lock, dpc, dlast, dpage, alltasks, dundo,
                      tasks, sent, lastgrant, cpc, delivered>>
       /\ UNCHANGED <<limVars, startVars, splitVars, extVars>>

\* ------------------------------------------------------------------------
\* Campaign activation: CampaignStart.on_post, run_scheduled, campaign_start
\* ------------------------------------------------------------------------

Requests0 == {"q1", "q2"}

\* run_scheduled invocations of one behaviour.
MaxTicks == 2

\* CampaignStart requests of one behaviour.
MaxPosts == 2

\* Rows an open run_scheduled transaction has written.
SchedLocked == UNION {{pr[1] : pr \in sundo[p]} : p \in Procs}

\* The row of campaign k as a session outside the open transactions reads it.
Committed(k) ==
    IF \E p \in Procs : \E pr \in sundo[p] : pr[1] = k
    THEN (CHOOSE pr \in UNION {sundo[p] : p \in Procs} : pr[1] = k)[2]
    ELSE camp[k]

\* "update campaigns set data = data || {sent_at, count, sinkstatus} where id
\* = k and (data->>'sent_at' is null or data->>'sent_at' = '') returning
\* true": whether a row matches.
Activates(c) == c.sent_at = None

\* The row after the update (and after the patch of lines 2881-2888).
Activated(c, t) ==
    [c EXCEPT !.sent_at = t, !.sinkstatus = [x \in Sinks |-> "none"]]

\* CampaignStart.on_post, lines 1147-1155: the conditional update, a
\* statement of its own; it waits for a transaction holding the row.
PostUpdate(q, k) ==
    /\ rpc[q] = "idle"
    /\ nposts < MaxPosts
    /\ k \notin SchedLocked
    /\ nposts' = nposts + 1
    /\ IF Activates(camp[k])
       THEN /\ camp' = [camp EXCEPT ![k] = Activated(@, now)]
            /\ now' = now + 1
            /\ nact' = [nact EXCEPT ![k] = @ + 1]
            /\ rpc' = [rpc EXCEPT ![q] = "dispatch"]
            /\ rarg' = [rarg EXCEPT ![q] = k]
       ELSE UNCHANGED <<camp, now, nact, rpc, rarg>>
    /\ UNCHANGED <<slock, spc, sids, sundo, stasks, tpc, targ, ndisp, nticks>>
    /\ UNCHANGED <<limVars, drainRest, splitVars, extVars>>

\* Lines 1156-1157: "if ok: run_task(campaign_start, id)".
PostDispatch(q) ==
    /\ rpc[q] = "dispatch"
    /\ stasks' = Append(stasks, rarg[q])
    /\ ndisp' = [ndisp EXCEPT ![rarg[q]] = @ + 1]
    /\ rpc' = [rpc EXCEPT ![q] = "idle"]
    /\ rarg' = [rarg EXCEPT ![q] = "k1"]
    /\ UNCHANGED <<slock, spc, sids, sundo, tpc, targ, nact, nticks, nposts>>
    /\ UNCHANGED <<limVars, drainVars, splitVars, extVars>>

\* run_scheduled, lines 2838-2853: the lock is free; the due campaigns are
\* selected, in any order.
SchedSelect(p) ==
    /\ spc[p] = "idle"
    /\ nticks < MaxTicks
    /\ slock = "none"
    /\ nticks' = nticks + 1
    /\ slock' = p
    /\ \E ids \in Orders({k \in Camps : /\ Committed(k).due
                                       /\ Committed(k).sent_at = None
                                       /\ ~Committed(k).processed_schedule}) :
          sids' = [sids EXCEPT ![p] = ids]
    /\ spc' = [spc EXCEPT ![p] = "mark"]
    /\ UNCHANGED <<sundo, rpc, rarg, stasks, tpc, targ, nact, ndisp, nposts>>
    /\ UNCHANGED <<limVars, drainVars, splitVars, extVars>>

\* Lines 2839-2840: the lock is taken, the tick returns.
SchedBusy(p) ==
    /\ spc[p] = "idle"
    /\ nticks < MaxTicks
    /\ slock # "none"
    /\ nticks' = nticks + 1
    /\ UNCHANGED <<slock, spc, sids, sundo, rpc, rarg, stasks, tpc, targ, nact,
                   ndisp, nposts>>
    /\ UNCHANGED <<limVars, drainVars, splitVars, extVars>>

\* Lines 2855-2856: processed_schedule is patched on every selected row.
SchedMark(p) ==
    /\ spc[p] = "mark"
    /\ sundo' = [sundo EXCEPT ![p] = {<<sids[p][i], camp[sids[p][i]]>> :
                                       i \in 1..Len(sids[p])}]
    /\ camp' = [k \in Camps |->
                  IF \E i \in 1..Len(sids[p]) : sids[p][i] = k
                  THEN [camp[k] EXCEPT !.processed_schedule = TRUE]
                  ELSE camp[k]]
    /\ spc' = [spc EXCEPT ![p] = "loop"]
    /\ UNCHANGED <<slock, sids, rpc, rarg, stasks, tpc, targ, nact, ndisp,
                   nticks, nposts>>
    /\ UNCHANGED <<limVars, drainRest, now, splitVars, extVars>>

\* Lines 2858-2878: the conditional update for the next id.
SchedUpdate(p) ==
    LET k == Head(sids[p])
    IN /\ spc[p] = "loop"
       /\ sids[p] # <<>>
       /\ IF Activates(camp[k])
          THEN /\ camp' = [camp EXCEPT ![k] = Activated(@, now)]
               /\ now' = now + 1
               /\ nact' = [nact EXCEPT ![k] = @ + 1]
               /\ spc' = [spc EXCEPT ![p] = "dispatch"]
               /\ UNCHANGED sids
          ELSE /\ sids' = [sids EXCEPT ![p] = Tail(@)]
               /\ UNCHANGED <<camp, now, nact, spc>>
       /\ UNCHANGED <<slock, sundo, rpc, rarg, stasks, tpc, targ, ndisp, nticks,
                      nposts>>
       /\ UNCHANGED <<limVars, drainRest, splitVars, extVars>>

\* Lines 2879-2880: "if ok: run_task(campaign_start, id)".
SchedDispatch(p) ==
    /\ spc[p] = "dispatch"
    /\ stasks' = Append(stasks, Head(sids[p]))
    /\ ndisp' = [ndisp EXCEPT ![Head(sids[p])] = @ + 1]
    /\ spc' = [spc EXCEPT ![p] = "patch"]
    /\ UNCHANGED <<slock, sids, sundo, rpc, rarg, tpc, targ, nact, nticks,
                   nposts>>
    /\ UNCHANGED <<limVars, drainVars, splitVars, extVars>>

\* Lines 2881-2888: the patch after the dispatch.
SchedPatch(p) ==
    /\ spc[p] = "patch"
    /\ camp' = [camp EXCEPT ![Head(sids[p])] = Activated(@, now)]
    /\ now' = now + 1
    /\ sids' = [sids EXCEPT ![p] = Tail(@)]
    /\ spc' = [spc EXCEPT ![p] = "loop"]
    /\ UNCHANGED <<slock, sundo, rpc, rarg, stasks, tpc, targ, nact, ndisp,
                   nticks, nposts>>
    /\ UNCHANGED <<limVars, drainRest, splitVars, extVars>>

\* Lines 2889-2898: run_task raised; the handler patches sent_at,
\* finished_at and error.
SchedError(p) ==
    /\ spc[p] = "dispatch"
    /\ camp' = [camp EXCEPT ![Head(sids[p])].sent_at = now,
                            ![Head(sids[p])].finished_at = now + 1,
                            ![Head(sids[p])].error = "error"]
    /\ now' = now + 2
    /\ sids' = [sids EXCEPT ![p] = Tail(@)]
    /\ spc' = [spc EXCEPT ![p] = "loop"]
    /\ UNCHANGED <<slock, sundo, rpc, rarg, stasks, tpc, targ, nact, ndisp,
                   nticks, nposts>>
    /\ UNCHANGED <<limVars, drainRest, splitVars, extVars>>

\* The end of "with db.transaction()": commit, the lock goes.
SchedCommit(p) ==
    /\ spc[p] = "loop"
    /\ sids[p] = <<>>
    /\ sundo' = [sundo EXCEPT ![p] = {}]
    /\ slock' = "none"
    /\ spc' = [spc EXCEPT ![p] = "idle"]
    /\ UNCHANGED <<sids, rpc, rarg, stasks, tpc, targ, nact, ndisp, nticks,
                   nposts>>
    /\ UNCHANGED <<limVars, drainVars, splitVars, extVars>>

\* campaign_start, lines 898-906: the campaign is read; a started one ends
\* the task.
StartRead ==
    /\ tpc = "idle"
    /\ stasks # <<>>
    /\ stasks' = Tail(stasks)
    /\ IF Committed(Head(stasks)).started
       THEN UNCHANGED <<tpc, targ>>
       ELSE /\ tpc' = "patch"
            /\ targ' = Head(stasks)
    /\ UNCHANGED <<slock, spc, sids, sundo, rpc, rarg, nact, ndisp, nticks,
                   nposts>>
    /\ UNCHANGED <<limVars, drainVars, splitVars, extVars>>

\* Line 907: started is patched; the statement waits for a transaction
\* holding the row.
StartPatch ==
    /\ tpc = "patch"
    /\ targ \notin SchedLocked
    /\ camp' = [camp EXCEPT ![targ].started = TRUE]
    /\ tpc' = "idle"
    /\ targ' = "k1"
    /\ UNCHANGED <<slock, spc, sids, sundo, rpc, rarg, stasks, nact, ndisp,
                   nticks, nposts>>
    /\ UNCHANGED <<limVars, drainRest, now, splitVars, extVars>>

\* The activation side at rest.
StartIdle ==
    /\ slock = "none"
    /\ spc = [p \in Procs |-> "idle"]
    /\ sids = [p \in Procs |-> <<>>]
    /\ sundo = [p \in Procs |-> {}]
    /\ rpc = [q \in Requests0 |-> "idle"]
    /\ rarg = [q \in Requests0 |-> "k1"]
    /\ stasks = <<>>
    /\ tpc = "idle"
    /\ targ = "k1"
    /\ nact = [k \in Camps |-> 0]
    /\ ndisp = [k \in Camps |-> 0]
    /\ nticks = 0
    /\ nposts = 0

\* ------------------------------------------------------------------------
\* The split loop of write_campaign_lists
\* ------------------------------------------------------------------------

\* Rows of one call of write_campaign_lists, at most.
MaxRows == 50

\* Bits of the significand of a float (IEEE 754 binary64).
Precision == 53

\* Integers beyond the machine word are kept as limbs: five digits of base
\* 2^15, the lowest first.
LimbBits == 15
NLimbs == 5

RECURSIVE Pow2(_)
Pow2(n) == IF n = 0 THEN 1 ELSE 2 * Pow2(n - 1)

Base == Pow2(LimbBits)

\* The digits brought back under the base, carries going up.
RECURSIVE Carry(_, _, _)
Carry(l, i, c) ==
    IF i > NLimbs THEN <<>>
    ELSE <<(l[i] + c) % Base>> \o Carry(l, i + 1, (l[i] + c) \div Base)

Norm(l) == Carry(l, 1, 0)

\* x * 2^k for a small integer x >= 0.
ShiftedInt(x, k) ==
    Norm([i \in 1..NLimbs |->
            IF i = (k \div LimbBits) + 1 THEN x * Pow2(k % LimbBits) ELSE 0])

\* l * c for a small integer c.
MulSmall(l, c) == Norm([i \in 1..NLimbs |-> l[i] * c])

\* l \div b and l % b for a small integer b > 0: the digits from the top.
RECURSIVE DivFrom(_, _, _, _)
DivFrom(l, b, i, r) ==
    IF i = 0 THEN [q |-> <<>>, rem |-> r]
    ELSE LET cur == r * Base + l[i]
             low == DivFrom(l, b, i - 1, cur % b)
         IN [q |-> low.q \o <<cur \div b>>, rem |-> low.rem]

DivSmall(l, b) == DivFrom(l, b, NLimbs, 0)

\* x < y, the digits compared from the top.
RECURSIVE LessFrom(_, _, _)
LessFrom(x, y, i) ==
    IF i = 0 THEN FALSE
    ELSE IF x[i] # y[i] THEN x[i] < y[i]
    ELSE LessFrom(x, y, i - 1)

Less(x, y) == LessFrom(x, y, NLimbs)

\* l + c for a small integer c.
AddSmall(l, c) == Norm([i \in 1..NLimbs |-> IF i = 1 THEN l[1] + c ELSE l[i]])

\* The smallest s with a * 2^s >= b.
RECURSIVE Shift(_, _)
Shift(a, b) == IF a >= b THEN 0 ELSE 1 + Shift(2 * a, b)

\* A positive float is [n, x]: the integer n of at most Precision
\* significant bits and the exponent x, worth n * 2^(-x).

\* float(a) / float(b) for integers 0 < a < b: the quotient to Precision
\* bits, rounded to nearest, ties to even.
FloatDiv(a, b) ==
    LET x == Precision - 1 + Shift(a, b)
        d == DivSmall(ShiftedInt(a, x), b)
        up == 2 * d.rem > b \/ (2 * d.rem = b /\ d.q[1] % 2 = 1)
    IN [n |-> IF up THEN AddSmall(d.q, 1) ELSE d.q, x |-> x]

\* f * 100: the exact product, of Precision + 6 or Precision + 7 bits, cut
\* to Precision bits and rounded to nearest, ties to even.
FloatMul100(f) ==
    LET p == MulSmall(f.n, 100)
        t == IF Less(p, ShiftedInt(1, Precision + 6)) THEN 6 ELSE 7
        r == p[1] % Pow2(t)
        half == Pow2(t - 1)
        odd == (p[1] \div Pow2(t)) % 2 = 1
        up == r > half \/ (r = half /\ odd)
        cut == [p EXCEPT ![1] = @ - r]
    IN [n |-> IF up THEN AddSmall(cut, Pow2(t)) ELSE cut, x |-> f.x]

\* f < k for a float f > 0 and an integer k.
FloatLessInt(f, k) ==
    IF k <= 0 THEN FALSE ELSE Less(f.n, ShiftedInt(k, f.x))

\* Lines 274-277: "((float(cnt) / float(len(rows))) * 100) < pct" for
\* cnt < len(rows).
BelowPct(cnt, n, pct) ==
    IF cnt = 0 THEN 0 < pct
    ELSE FloatLessInt(FloatMul100(FloatDiv(cnt, n)), pct)

NoCounts == [d \in Domains |-> 0]

NextPct_Own(pct, objpct) == objpct

\* Line 266: "pct += obj["pct"]".
NextPct(pct, objpct) == pct + objpct

\* Lines 265-272: "for obj in sinkobjs": the next sink, its pct added, its
\* outfile opened.
SplitSink ==
    /\ wpc = "for"
    /\ wsi < Len(wsinks)
    /\ wsi' = wsi + 1
    /\ wpct' = NextPct(wpct, wsinks[wsi + 1])
    /\ wout' = <<>>
    /\ wlistcnt' = 0
    /\ wpc' = "while"
    /\ UNCHANGED <<wrows, wsinks, wcnt, wblocks, countbydomain>>
    /\ UNCHANGED <<limVars, drainVars, startVars, extVars>>

\* Lines 274-289: one turn of the while loop: rows[cnt] is written to the
\* sink's outfile and counted for its domain.
SplitRow ==
    /\ wpc = "while"
    /\ wcnt < Len(wrows)
    /\ BelowPct(wcnt, Len(wrows), wpct)
    /\ wout' = Append(wout, wcnt)
    /\ countbydomain' = [countbydomain EXCEPT ![wrows[wcnt + 1]] = @ + 1]
    /\ wcnt' = wcnt + 1
    /\ wlistcnt' = wlistcnt + 1
    /\ UNCHANGED <<wrows, wsinks, wpc, wsi, wpct, wblocks>>
    /\ UNCHANGED <<limVars, drainVars, startVars, extVars>>

\* Lines 291-304: the while loop is over; the sink's block is written, and
\* with pct >= 100 the loop over the sinks is left.
SplitWrite ==
    /\ wpc = "while"
    /\ ~(wcnt < Len(wrows) /\ BelowPct(wcnt, Len(wrows), wpct))
    /\ wblocks' = Append(wblocks, [sink |-> wsi, listcnt |-> wlistcnt,
                                   rows |-> wout])
    /\ wpc' = IF wpct >= 100 \/ wsi = Len(wsinks) THEN "done" ELSE "for"
    /\ UNCHANGED <<wrows, wsinks, wsi, wcnt, wpct, wlistcnt, wout,
                   countbydomain>>
    /\ UNCHANGED <<limVars, drainVars, startVars, extVars>>

\* The split loop at rest.
SplitIdle ==
    /\ wrows = <<>>
    /\ wsinks = <<>>
    /\ wpc = "done"
    /\ wsi = 0
    /\ wcnt = 0
    /\ wpct = 0
    /\ wlistcnt = 0
    /\ wout = <<>>
    /\ wblocks = <<>>
    /\ countbydomain = NoCounts

\* ------------------------------------------------------------------------
\* Event recording: write_list, write_txn and the paths that call them
\* ------------------------------------------------------------------------

Handlers == {"h1", "h2"}
Emails == {"e1", "e2"}

\* Deliveries of the event in one behaviour.
MaxDeliv == 3

\* Exceptions inside write_list / write_txn in one behaviour.
MaxRaise == 1

\* Calls of write_campaign_lists in one behaviour.
MaxLists == 1

\* events.py lines 44-50: campprops.
campprops(ct) ==
    CASE ct = "open" -> "opened"
      [] ct = "click" -> "clicked"
      [] ct = "bounce" -> "bounced"
      [] ct = "complaint" -> "complained"
      [] OTHER -> "unsubscribed"

\* events.py lines 283-286 and 442-444: "ct = t; if ct == 'hard': ct = 'bounce'".
CmdOf(t) == IF t = "hard" THEN "bounce" ELSE t

NoProps == [opened |-> 0, clicked |-> 0, bounced |-> 0, complained |-> 0,
            unsubscribed |-> 0, opened_all |-> 0, clicked_all |-> 0,
            hard |-> 0]

NoStats == [open |-> 0, click |-> 0, complaint |-> 0, unsub |-> 0,
            open_all |-> 0, click_all |-> 0, hard |-> 0]

\* No unsublogs row / a row.
NoSupp == [there |-> FALSE, unsubscribed |-> FALSE, complained |-> FALSE,
           bounced |-> FALSE]

\* Lines 603-616 (and 313-326): "insert into unsublogs ... on conflict (cid,
\* email) do update set" each flag or-ed with the new one.
Upsert(row, ct) ==
    [there |-> TRUE,
     unsubscribed |-> row.unsubscribed \/ ct = "unsub",
     complained |-> row.complained \/ ct = "complaint",
     bounced |-> row.bounced \/ ct = "bounce"]

\* The key of the event in camplogs (campid, email, cmd) and in txnlogs
\* (tag, msgid, email, cmd).
LogKey(ev) ==
    IF ev.kind = "list" THEN <<"k1", ev.email, CmdOf(ev.t)>>
    ELSE <<"tag1", "m1", ev.email, CmdOf(ev.t)>>

\* Where a handler goes when write_list / write_txn is over: the callers of
\* the provider webhooks and of the sink add the hard bounce to the counters
\* (events.py lines 1013-1058, 2069-2097, 2323-2351, 2569-2597).
AfterWrite(ev) ==
    IF ev.t = "hard" /\ ev.path # "track" THEN "stat" ELSE "idle"

\* A delivery is handed to a handler: Track.on_get / process_track_event,
\* Events.on_post, process_ses_webhook, process_sp_webhook,
\* process_mg_webhook.  SparkPost events are looked up by their event id
\* first; a Mailgun bounce with no ip known is not written (lines 2488-2499).
EvDeliver(h) ==
    /\ epc[h] = "idle"
    /\ ndeliv < MaxDeliv
    /\ ndeliv' = ndeliv + 1
    /\ epc' = [epc EXCEPT ![h] =
                 IF eev.path = "sp" THEN "dedup"
                 ELSE IF eev.path = "mg" /\ ~eev.ip THEN AfterWrite(eev)
                 ELSE "write"]
    /\ UNCHANGED <<eev, nwrites, camplogs, txnlogs, spevents, cprops, tstats, unsublogs,
                   euniq, ntracked, nhooks, ntagops, nsuppops, nsuppnew,
                   nraised, nlists, lateblock>>
    /\ UNCHANGED notEv

\* process_sp_webhook, lines 2124-2130: "insert into sparkpost_events (id)
\* ... on conflict (id) do nothing returning id"; a known id ends the call.
EvSpDedup(h) ==
    /\ epc[h] = "dedup"
    /\ spevents' = spevents \cup {"ev1"}
    /\ epc' = [epc EXCEPT ![h] = IF "ev1" \in spevents THEN "idle" ELSE "write"]
    /\ UNCHANGED <<eev, nwrites, camplogs, txnlogs, cprops, tstats, unsublogs, euniq,
                   ndeliv, ntracked, nhooks, ntagops, nsuppops, nsuppnew,
                   nraised, nlists, lateblock>>
    /\ UNCHANGED notEv

\* write_list lines 538-556, write_txn lines 295-297: a click or unsub on a
\* link that is not tracked returns; write_list adds 1 to opened_all /
\* clicked_all.
WriteEnter(h) ==
    LET ct == CmdOf(eev.t)
    IN /\ epc[h] = "write"
       /\ IF eev.t \in {"click", "unsub"} /\ ~eev.track
          THEN /\ epc' = [epc EXCEPT ![h] = AfterWrite(eev)]
               /\ UNCHANGED <<cprops, ntracked>>
          ELSE /\ epc' = [epc EXCEPT ![h] = "insert"]
               /\ ntracked' = ntracked + 1
               /\ cprops' = IF eev.kind = "list" /\ ct = "open"
                            THEN [cprops EXCEPT !.opened_all = @ + 1]
                            ELSE IF eev.kind = "list" /\ ct = "click"
                            THEN [cprops EXCEPT !.clicked_all = @ + 1]
                            ELSE cprops
       /\ nwrites' = nwrites + 1
       /\ UNCHANGED <<eev, camplogs, txnlogs, spevents, tstats, unsublogs,
                      euniq, ndeliv, nhooks, ntagops, nsuppops, nsuppnew,
                      nraised, nlists, lateblock>>
       /\ UNCHANGED notEv

InsertNew_Always(logs, key) == TRUE

\* "insert into camplogs ... on conflict (campid, email, cmd) do nothing
\* returning ts" is not None: the row was not there.
InsertNew(logs, key) == key \notin logs

AfterInsert_Effects(new, ev) == "supp"

\* write_list line 600 "if unique:", write_txn lines 299-311 and 404: the
\* side effects are for the delivery that inserted the row.
AfterInsert(new, ev) ==
    IF new THEN "supp"
    ELSE IF ev.kind = "txn" /\ ev.t \in {"open", "click"} THEN "dup"
    ELSE AfterWrite(ev)

\* write_list lines 558-572, write_txn lines 299-311: the guarded insert.  A
\* repeated transactional open or click goes on to the "_all only" branch,
\* every other repeated event is over.
WriteInsert(h) ==
    LET key == LogKey(eev)
        new == InsertNew(IF eev.kind = "list" THEN camplogs ELSE txnlogs, key)
    IN /\ epc[h] = "insert"
       /\ IF eev.kind = "list"
          THEN camplogs' = camplogs \cup {key} /\ UNCHANGED txnlogs
          ELSE txnlogs' = txnlogs \cup {key} /\ UNCHANGED camplogs
       /\ euniq' = [euniq EXCEPT ![h] = new]
       /\ epc' = [epc EXCEPT ![h] = AfterInsert(new, eev)]
       /\ UNCHANGED <<eev, nwrites, spevents, cprops, tstats, unsublogs, ndeliv,
                      ntracked, nhooks, ntagops, nsuppops, nsuppnew, nraised,
                      nlists, lateblock>>
       /\ UNCHANGED notEv

\* write_txn lines 404-412: "_all only".
WriteTxnAll(h) ==
    /\ epc[h] = "dup"
    /\ tstats' = IF eev.t = "open"
                 THEN [tstats EXCEPT !.open_all = @ + 1]
                 ELSE [tstats EXCEPT !.click_all = @ + 1]
    /\ epc' = [epc EXCEPT ![h] = AfterWrite(eev)]
    /\ UNCHANGED <<eev, nwrites, camplogs, txnlogs, spevents, cprops, unsublogs, euniq,
                   ndeliv, ntracked, nhooks, ntagops, nsuppops, nsuppnew,
                   nraised, nlists, lateblock>>
    /\ UNCHANGED notEv

\* write_list lines 600-627, write_txn lines 313-326, the insert having
\* inserted: the suppression record of a bounce, complaint or unsub; the tag
\* rules of a campaign's open or click.
WriteSupp(h) ==
    LET ct == CmdOf(eev.t)
        e == eev.email
    IN /\ epc[h] = "supp"
       /\ IF ct \in {"bounce", "complaint", "unsub"}
          THEN /\ unsublogs' = [unsublogs EXCEPT ![e] = Upsert(@, ct)]
               /\ nsuppops' = nsuppops + 1
               /\ nsuppnew' = IF unsublogs[e].there THEN nsuppnew
                              ELSE nsuppnew + 1
               /\ UNCHANGED ntagops
          ELSE /\ ntagops' = IF eev.kind = "list" /\ eev.tags
                             THEN ntagops + 1 ELSE ntagops
               /\ UNCHANGED <<unsublogs, nsuppops, nsuppnew>>
       /\ epc' = [epc EXCEPT ![h] = "count"]
       /\ UNCHANGED <<eev, nwrites, camplogs, txnlogs, spevents, cprops, tstats, euniq,
                      ndeliv, ntracked, nhooks, nraised, nlists, lateblock>>
       /\ UNCHANGED notEv

\* write_list lines 628-642: the counter of the command; write_txn lines
\* 328-376: txnstats_insert with the unique and the _all column of an open
\* or click, the column of a complaint or unsub.
WriteCount(h) ==
    LET ct == CmdOf(eev.t)
    IN /\ epc[h] = "count"
       /\ IF eev.kind = "list"
          THEN /\ cprops' = [cprops EXCEPT ![campprops(ct)] = @ + 1]
               /\ UNCHANGED tstats
          ELSE /\ tstats' =
                    CASE ct = "open" ->
                           [tstats EXCEPT !.open = @ + 1, !.open_all = @ + 1]
                      [] ct = "click" ->
                           [tstats EXCEPT !.click = @ + 1, !.click_all = @ + 1]
                      [] ct = "unsub" -> [tstats EXCEPT !.unsub = @ + 1]
                      [] ct = "complaint" -> [tstats EXCEPT !.complaint = @ + 1]
                      [] OTHER -> tstats
               /\ UNCHANGED cprops
       /\ epc' = [epc EXCEPT ![h] = "hook"]
       /\ UNCHANGED <<eev, nwrites, camplogs, txnlogs, spevents, unsublogs, euniq,
                      ndeliv, ntracked, nhooks, ntagops, nsuppops, nsuppnew,
                      nraised, nlists, lateblock>>
       /\ UNCHANGED notEv

\* write_list lines 671-701, write_txn lines 376-402: send_webhooks.
WriteHook(h) ==
    /\ epc[h] = "hook"
    /\ nhooks' = nhooks + 1
    /\ epc' = [epc EXCEPT ![h] = AfterWrite(eev)]
    /\ UNCHANGED <<eev, nwrites, camplogs, txnlogs, spevents, cprops, tstats, unsublogs,
                   euniq, ndeliv, ntracked, ntagops, nsuppops, nsuppnew,
                   nraised, nlists, lateblock>>
    /\ UNCHANGED notEv

\* A statement of write_list / write_txn raises.  Events.on_post logs the
\* exception and goes on with the event (lines 897-898); out of a webhook
\* processor and out of Track.on_get it ends the call.
WriteRaise(h) ==
    /\ epc[h] \in {"insert", "supp", "count", "hook", "dup"}
    /\ nraised < MaxRaise
    /\ nraised' = nraised + 1
    /\ epc' = [epc EXCEPT ![h] = IF eev.path = "events" THEN AfterWrite(eev)
                                 ELSE "idle"]
    /\ UNCHANGED <<eev, nwrites, camplogs, txnlogs, spevents, cprops, tstats, unsublogs,
                   euniq, ndeliv, ntracked, nhooks, ntagops, nsuppops,
                   nsuppnew, nlists, lateblock>>
    /\ UNCHANGED notEv

\* Events.on_post lines 954-955 and 1013-1058, process_ses_webhook lines
\* 1988-1989 and 2069-2097, process_sp_webhook lines 2323-2351,
\* process_mg_webhook lines 2569-2597: the hard bounce is added to the
\* campaign's hard counter, or to txnstats.hard.
PathStat(h) ==
    /\ epc[h] = "stat"
    /\ IF eev.kind = "list"
       THEN cprops' = [cprops EXCEPT !.hard = @ + 1] /\ UNCHANGED tstats
       ELSE tstats' = [tstats EXCEPT !.hard = @ + 1] /\ UNCHANGED cprops
    /\ epc' = [epc EXCEPT ![h] = "idle"]
    /\ UNCHANGED <<eev, nwrites, camplogs, txnlogs, spevents, unsublogs, euniq, ndeliv,
                   ntracked, nhooks, ntagops, nsuppops, nsuppnew, nraised,
                   nlists, lateblock>>
    /\ UNCHANGED notEv

\* The row of a contact as get_segment_rows hands it to
\* write_campaign_lists: the suppression flags of the company's record for
\* the email are its Unsubscribed, Complained and Bounced properties.
SegmentRow(e) ==
    [Email |-> e,
     Unsubscribed |-> unsublogs[e].unsubscribed,
     Complained |-> unsublogs[e].complained,
     Bounced |-> unsublogs[e].bounced]

eval_suppress_NoBounce(r) == ~r.Unsubscribed /\ ~r.Complained

\* campaigns.py lines 228-240: eval_suppress (no suppression tags, no
\* suppression list).
eval_suppress(r) == ~r.Unsubscribed /\ ~r.Complained /\ ~r.Bounced

\* A hard bounce, complaint or unsubscribe of the email is in camplogs or
\* txnlogs.
Recorded(e) ==
    \/ \E k \in camplogs : k[2] = e /\ k[3] \in {"bounce", "complaint", "unsub"}
    \/ \E k \in txnlogs : k[3] = e /\ k[4] \in {"bounce", "complaint", "unsub"}

\* write_campaign_lists, campaigns.py lines 223-304, for a campaign of the
\* company: the rows that pass eval_suppress are written to the list blocks.
WriteLists ==
    /\ nlists < MaxLists
    /\ nlists' = nlists + 1
    /\ lateblock' = lateblock \cup
                      {e \in Emails : eval_suppress(SegmentRow(e)) /\ Recorded(e)}
    /\ UNCHANGED <<eev, nwrites, camplogs, txnlogs, spevents, cprops, tstats, unsublogs,
                   epc, euniq, ndeliv, ntracked, nhooks, ntagops, nsuppops,
                   nsuppnew, nraised>>
    /\ UNCHANGED notEv

Event(path, kind, t, track, ip) ==
    [path |-> path, kind |-> kind, t |-> t, track |-> track, ip |-> ip,
     tags |-> TRUE, email |-> "e1"]

\* The event handlers at rest, nothing recorded.
EvRest ==
    /\ camplogs = {}
    /\ txnlogs = {}
    /\ spevents = {}
    /\ cprops = NoProps
    /\ tstats = NoStats
    /\ unsublogs = [e \in Emails |-> NoSupp]
    /\ epc = [h \in Handlers |-> "idle"]
    /\ euniq = [h \in Handlers |-> FALSE]
    /\ ndeliv = 0
    /\ nwrites = 0
    /\ ntracked = 0
    /\ nhooks = 0
    /\ ntagops = 0
    /\ nsuppops = 0
    /\ nsuppnew = 0
    /\ nraised = 0
    /\ nlists = 0
    /\ lateblock = {}

EvIdle ==
    /\ eev = Event("track", "list", "open", TRUE, TRUE)
    /\ EvRest

\* ------------------------------------------------------------------------
\* Tracking events ahead of the delivery confirmation: Track.on_get and the
\* "send" branch of process_mg_webhook / process_sp_webhook
\* ------------------------------------------------------------------------

\* The open / click / unsub requests that carry the tracking id.
TrkReqs == {"r1", "r2"}

\* Delivery confirmations of the provider for the tracking id, at most.
MaxConf == 2

RECURSIVE HasReq(_, _)
HasReq(q, r) == IF q = <<>> THEN FALSE ELSE Head(q) = r \/ HasReq(Tail(q), r)

\* Track.on_get, events.py lines 1663-1733: the tracking id is looked up in
\* mgtracking, sesmessages, sptracking, eltracking and smtptracking; with a
\* row the event is processed, with none it goes to the buffer.
TrackRead(r) ==
    /\ kpc[r] = "idle"
    /\ kpc' = [kpc EXCEPT ![r] = IF trow THEN "process" ELSE "push"]
    /\ UNCHANGED <<trow, pending, whpc, whlist, nproc, nconf>>
    /\ UNCHANGED notTrk

\* Lines 1695-1718: "event pending": lpush on tracking-<id>, expire.
TrackPush(r) ==
    /\ kpc[r] = "push"
    /\ pending' = <<r>> \o pending
    /\ kpc' = [kpc EXCEPT ![r] = "done"]
    /\ UNCHANGED <<trow, whpc, whlist, nproc, nconf>>
    /\ UNCHANGED notTrk

\* Lines 1735-1751: settingsid is known: process_track_event.
TrackProcess(r) ==
    /\ kpc[r] = "process"
    /\ nproc' = [nproc EXCEPT ![r] = @ + 1]
    /\ kpc' = [kpc EXCEPT ![r] = "done"]
    /\ UNCHANGED <<trow, pending, whpc, whlist, nconf>>
    /\ UNCHANGED notTrk

\* process_mg_webhook lines 2453-2462 (process_sp_webhook 2206-2215): the
\* delivery confirmation writes the tracking row.
ConfInsert ==
    /\ whpc = "idle"
    /\ nconf < MaxConf
    /\ nconf' = nconf + 1
    /\ trow' = TRUE
    /\ whpc' = "drain"
    /\ UNCHANGED <<pending, kpc, whlist, nproc>>
    /\ UNCHANGED notTrk

\* Lines 2464-2467: "lrange(trackingkey, 0, -1).delete(trackingkey)" in one
\* pipeline: what is left of the list.
Drained(q) == <<>>

\* Lines 2464-2467: the buffered events are taken.
ConfDrain ==
    /\ whpc = "drain"
    /\ whlist' = pending
    /\ pending' = Drained(pending)
    /\ whpc' = "replay"
    /\ UNCHANGED <<trow, kpc, nproc, nconf>>
    /\ UNCHANGED notTrk

\* Lines 2468-2487: process_track_event for every buffered event.
ConfReplay ==
    /\ whpc = "replay"
    /\ IF whlist = <<>>
       THEN /\ whpc' = "idle"
            /\ UNCHANGED <<whlist, nproc>>
       ELSE /\ nproc' = [nproc EXCEPT ![Head(whlist)] = @ + 1]
            /\ whlist' = Tail(whlist)
            /\ UNCHANGED whpc
    /\ UNCHANGED <<trow, pending, kpc, nconf>>
    /\ UNCHANGED notTrk

\* No tracking request, no confirmation yet.
TrkIdle ==
    /\ trow = FALSE
    /\ pending = <<>>
    /\ kpc = [r \in TrkReqs |-> "none"]
    /\ whpc = "idle"
    /\ whlist = <<>>
    /\ nproc = [r \in TrkReqs |-> 0]
    /\ nconf = MaxConf

\* ---- one send: send_queued_camp's dispatch and the adapters ----------------

\* Provider calls one send has to make at most.
MaxRecips == 2

\* The backends: the four API adapters are called alike; any other
\* policytype is an MTA sink, which send_queued_camp posts to itself.
Adapters == {"ses", "sparkpost", "smtprelay"}
MtaSink == "mta"

\* send.py lines 929-1003: send_backend_mail calls the adapter in the
\* caller's thread (sync), write_err left at its default, raise_err as the
\* caller gave it, the campid "test" or that of a transactional message.
BackendCalls ==
    { [campid |-> c, write_err |-> FALSE, raise_err |-> r, policytype |-> a] :
         c \in {"test", "tx-1"}, r \in BOOLEAN, a \in Adapters }

\* campaigns.py lines 3243-3309: send_queued_camp calls the adapter with
\* write_err set and raise_err left at its default.
CampCalls ==
    { [campid |-> "k1", write_err |-> TRUE, raise_err |-> FALSE,
       policytype |-> a] : a \in Adapters \cup {MtaSink} }

NoRec == [finished_at |-> FALSE, error |-> FALSE]
ErrRec == [finished_at |-> TRUE, error |-> TRUE]

\* The mutation of Reraise: the handler never raises.
Reraise_Never(campid, raise_err) == FALSE

\* send.py lines 1490, 1985, 2500: the handler raises again for a test.
Reraise(campid, raise_err) == campid = "test" \/ raise_err

\* send.py lines 1479-1491, 1975-1986, 2489-2501: the handler of the
\* adapter: the error is written when write_err is set, and raised again
\* as Reraise says.
Handler ==
    /\ xrec' = IF xcall.write_err THEN ErrRec ELSE xrec
    /\ xraised' = Reraise(xcall.campid, xcall.raise_err)
    /\ xfatal' = TRUE
    /\ xpc' = "done"

\* A provider call begins: it is late when the flag is set and was not
\* read since the call before it.
Late == IF xcanceled /\ ~xfresh THEN 1 ELSE 0

\* CampaignCancel.on_post, campaigns.py lines 1169-1181: the flag is set.
CampCancel ==
    /\ xcall \in CampCalls
    /\ ~xcanceled
    /\ xcanceled' = TRUE
    /\ UNCHANGED <<xcall, xpc, xleft, xfresh, xrec, xraised, xfatal, xsent,
                   xlate>>
    /\ UNCHANGED notSnd

\* campaigns.py lines 3237-3241: send_queued_camp reads the flag and
\* returns when it is set; lines 3243-3309: it calls the adapter, which
\* runs as a task of its own (run_task), or goes on to the sink.
CampCheck ==
    /\ xpc = "check"
    /\ xpc' = IF xcanceled THEN "done"
              ELSE IF xcall.policytype = MtaSink THEN "settings" ELSE "loop"
    /\ xfresh' = ~xcanceled
    /\ UNCHANGED <<xcall, xleft, xcanceled, xrec, xraised, xfatal, xsent,
                   xlate>>
    /\ UNCHANGED notSnd

\* campaigns.py lines 3311-3339: the sink's settings are posted, and the
\* flag is read again.
SinkSettings ==
    /\ xpc = "settings"
    /\ xpc' = IF xcanceled THEN "done" ELSE "post"
    /\ xfresh' = ~xcanceled
    /\ UNCHANGED <<xcall, xleft, xcanceled, xrec, xraised, xfatal, xsent,
                   xlate>>
    /\ UNCHANGED notSnd

\* campaigns.py lines 3341-3367: the list is posted to the sink.
SinkPost ==
    /\ xpc = "post"
    /\ xlate' = xlate + Late
    /\ xsent' = xsent + 1
    /\ xleft' = 0
    /\ xfresh' = FALSE
    /\ xpc' = "done"
    /\ UNCHANGED <<xcall, xcanceled, xrec, xraised, xfatal>>
    /\ UNCHANGED notSnd

\* campaigns.py lines 3368-3373: a request to the sink fails;
\* send_queued_camp writes the error and returns.
SinkFatal ==
    /\ xpc \in {"settings", "post"}
    /\ xrec' = ErrRec
    /\ xpc' = "done"
    /\ UNCHANGED <<xcall, xleft, xcanceled, xfresh, xraised, xfatal, xsent,
                   xlate>>
    /\ UNCHANGED notSnd

\* send.py lines 1900-1968 with do_send, lines 1799-1898 (and the same
\* loops of the other adapters): the next provider call of the recipient
\* loop. The provider accepts it (ok), or rejects it: a test raises, any
\* other send counts a soft bounce and raises only with raise_err.
AdapterSend(ok) ==
    /\ xpc = "loop"
    /\ xleft > 0
    /\ xlate' = xlate + Late
    /\ xsent' = xsent + 1
    /\ xfresh' = FALSE
    /\ xleft' = xleft - 1
    /\ IF ~ok /\ (xcall.campid = "test" \/ xcall.raise_err)
          THEN Handler
          ELSE /\ xpc' = IF xleft = 1 THEN "done" ELSE "loop"
               /\ UNCHANGED <<xrec, xraised, xfatal>>
    /\ UNCHANGED <<xcall, xcanceled>>
    /\ UNCHANGED notSnd

\* Any other statement of the adapter raises (the connection, the
\* credentials, the recipient stream): the handler runs.
AdapterFatal ==
    /\ xpc = "loop"
    /\ Handler
    /\ UNCHANGED <<xcall, xleft, xcanceled, xfresh, xsent, xlate>>
    /\ UNCHANGED notSnd

SndRest ==
    /\ xcanceled = FALSE
    /\ xfresh = FALSE
    /\ xrec = NoRec
    /\ xraised = FALSE
    /\ xfatal = FALSE
    /\ xsent = 0
    /\ xlate = 0

SndIdle ==
    /\ xcall = CHOOSE c \in CampCalls : c.policytype = MtaSink
    /\ xpc = "done"
    /\ xleft = 0
    /\ SndRest

\* ---- the domain throttles of one call ------------------------------------

\* send.py line 152: load_domain_throttles keeps the active rows.
load_domain_throttles(rows) == SelectSeq(rows, LAMBDA dt : dt.active)

\* The limits of a row: each field takes None, a string and two numbers
\* over the four.
LimitTriples ==
    { <<1, None, 2>>, <<2, 1, StrVal>>, <<None, 2, 1>>, <<StrVal, StrVal, None>> }

\* A literal entry, another domain's literal entry, a glob.
DomainLists == { <<"a.com">>, <<"b.com">>, <<"*">> }

ThrottleRows ==
    { [route |-> r, domainsparsed |-> ds, minlimit |-> t[1], hourlimit |-> t[2],
       daylimit |-> t[3], active |-> act] :
         r \in Routes, ds \in DomainLists, t \in LimitTriples, act \in BOOLEAN }

\* The rows a company has at most.
MaxThrottles == 2

ThrottleLists == UNION { [1..n -> ThrottleRows] : n \in 0..MaxThrottles }

\* campaigns.py line 2957 and send.py lines 198-247: the drainer loads the
\* throttles of the company and check_send_limit folds them for the route
\* and the domain of the group.
ThrottleEval(route, domain) ==
    /\ dtlimits = <<>>
    /\ dttarget' = <<route, domain>>
    /\ dtlimits' = <<DomainLimits(load_domain_throttles(dtrows), route, domain)>>
    /\ UNCHANGED dtrows
    /\ UNCHANGED notThr

ThrIdle ==
    /\ dtrows = <<>>
    /\ dttarget = <<"r1", "a.com">>
    /\ dtlimits = <<>>

\* ---- the gather barrier ----------------------------------------------------

\* The sub-units of the gather, and the deliveries of a sub-unit's task: the
\* task queue delivers at least once, delivery 2 is a duplicate.
Units == {"u1", "u2"}
Runs == Units \X {1, 2}

\* Duplicate deliveries at most.
MaxDup == 1

\* utils.py lines 1540-1548: gather_init(db, name, count), count being the
\* number of sub-units.
GatherLimit == Cardinality(Units)

\* Lines 1576-1579: the task run t has finished its sub-unit and calls
\* gather_complete: its data row is added.
GatherAdd(t) ==
    /\ gpc[t] = "idle"
    /\ t[2] = 2 => ndup < MaxDup
    /\ ndup' = IF t[2] = 2 THEN ndup + 1 ELSE ndup
    /\ gdata' = gdata \cup {t}
    /\ gpc' = [gpc EXCEPT ![t] = "count"]
    /\ UNCHANGED <<gremove, grow, gcount, gret, ghand>>
    /\ UNCHANGED notGat

\* Lines 1581-1585 and 1600-1605: the update of count; with remove it
\* returns count >= limit of the updated row, nothing when the row is gone.
GatherCount(t) ==
    /\ gpc[t] = "count"
    /\ gcount' = IF grow THEN gcount + 1 ELSE gcount
    /\ gpc' = [gpc EXCEPT ![t] =
          IF gremove /\ grow /\ gcount + 1 >= GatherLimit THEN "remove" ELSE "done"]
    /\ UNCHANGED <<gremove, grow, gdata, gret, ghand, ndup>>
    /\ UNCHANGED notGat

\* Line 1586: db.taskgather.remove(gatherid).
GatherRemove(t) ==
    /\ gpc[t] = "remove"
    /\ grow' = FALSE
    /\ gpc' = [gpc EXCEPT ![t] = "select"]
    /\ UNCHANGED <<gremove, gcount, gdata, gret, ghand, ndup>>
    /\ UNCHANGED notGat

\* Lines 1587-1594: the data rows of the gather are read.
GatherSelect(t) ==
    /\ gpc[t] = "select"
    /\ gret' = [gret EXCEPT ![t] = gdata]
    /\ gpc' = [gpc EXCEPT ![t] = "delete"]
    /\ UNCHANGED <<gremove, grow, gcount, gdata, ghand, ndup>>
    /\ UNCHANGED notGat

\* Lines 1595-1599: the data rows are deleted if there were any, and the
\* list goes to the caller.
GatherReturn(t) ==
    /\ gpc[t] = "delete"
    /\ gdata' = IF gret[t] # {} THEN {} ELSE gdata
    /\ ghand' = [ghand EXCEPT ![t] = <<gret[t]>>]
    /\ gpc' = [gpc EXCEPT ![t] = "done"]
    /\ UNCHANGED <<gremove, grow, gcount, gret, ndup>>
    /\ UNCHANGED notGat

GatRest ==
    /\ grow = TRUE
    /\ gcount = 0
    /\ gdata = {}
    /\ gpc = [t \in Runs |-> "idle"]
    /\ gret = [t \in Runs |-> {}]
    /\ ghand = [t \in Runs |-> <<>>]

GatIdle ==
    /\ gremove = TRUE
    /\ GatRest
    /\ ndup = MaxDup

\* ---- one run of an adapter over its recipients ------------------------------

\* Recipients of the run.
RlyRecips == 3

\* The largest msgsperconn of the relay's settings.
MaxPerConn == 2

\* send.py lines 2482, 2661: the recipients of one call of the batch
\* adapters (1000 in the source).
BatchSize == 2

PerRecipient == {"smtprelay", "easylink"}
PerBatch == {"sparkpost", "mailgun"}

\* The runs: send_queued_camp's (campaigns.py lines 3243-3309) and
\* send_backend_mail's (send.py lines 929-1003); msgsperconn is a setting
\* of the relay, 0 standing for none.
RelayCalls ==
    { [adapter |-> a, campid |-> c[1], write_err |-> c[2], raise_err |-> c[3],
       msgsperconn |-> m] :
         a \in PerRecipient \cup PerBatch,
         c \in {<<"k1", TRUE, FALSE>>, <<"test", FALSE, FALSE>>,
                <<"test", FALSE, TRUE>>, <<"tx-1", FALSE, FALSE>>,
                <<"tx-1", FALSE, TRUE>>},
         m \in 0..MaxPerConn }

NoOut == [send |-> 0, soft |-> 0]

\* The mutation of LeaseOver: the connection is given up one message late.
LeaseOver_Late(msgsperconn, csent) == msgsperconn # 0 /\ csent > msgsperconn

\* send.py lines 1858-1861: the connection has carried its messages.
LeaseOver(msgsperconn, csent) == msgsperconn # 0 /\ csent >= msgsperconn

\* The mutation of SoftRaise: every rejected call raises.
SoftRaise_Always(campid, raise_err) == TRUE

\* send.py lines 1850-1852 and 1897, 2163-2165 and 2181, 2409-2441,
\* 2602-2632: a rejected provider call raises for a test and with
\* raise_err; any other run counts soft bounces and goes on.
SoftRaise(campid, raise_err) == campid = "test" \/ raise_err

\* send.py lines 1975-1986, 2281-2292, 2489-2501, 2669-2681: the handler of
\* the adapter.
RelayHandler ==
    /\ arec' = IF acall.write_err THEN ErrRec ELSE arec
    /\ araised' = Reraise(acall.campid, acall.raise_err)
    /\ apc' = "done"
    /\ ai' = ai

\* The loop goes on after n recipients.
RelayAdvance(n) ==
    /\ ai' = ai + n
    /\ apc' = IF ai + n > alen THEN "done" ELSE "loop"
    /\ UNCHANGED <<arec, araised>>

\* The stats of the recipients rs: a test counts none.
Stats(rs, send, soft) ==
    IF acall.campid = "test" THEN aout
    ELSE [r \in 1..RlyRecips |->
            IF r \in rs THEN [send |-> aout[r].send + send,
                              soft |-> aout[r].soft + soft]
            ELSE aout[r]]

\* send.py lines 1799-1898 with open_conn, lines 1773-1797: do_send of
\* do_smtprelay_send for one recipient.  The connection cannot be opened
\* (connfail), the relay refuses the message (sendfail), or accepts it.
RelaySend(out) ==
    /\ acall.adapter = "smtprelay"
    /\ apc = "loop"
    /\ out = "connfail" => ~conn
    /\ LET opened == ~conn /\ out # "connfail"
           ok == out = "ok"
           csent == (IF opened THEN 0 ELSE conn_sent) + (IF ok THEN 1 ELSE 0)
           n == IF opened THEN nconn + 1 ELSE nconn
       IN /\ nconn' = n
          /\ conn_sent' = csent
          /\ asent' = IF ok THEN Append(asent, [rcpt |-> ai, conn |-> n])
                      ELSE asent
          /\ afailed' = IF ok THEN afailed ELSE afailed + 1
          /\ IF ~ok /\ acall.campid = "test"
                THEN /\ conn' = (conn \/ opened)
                     /\ aout' = aout
                     /\ RelayHandler
                ELSE /\ conn' = ((conn \/ opened)
                                   /\ ~LeaseOver(acall.msgsperconn, csent))
                     /\ aout' = IF ok THEN Stats({ai}, 1, 0)
                                ELSE Stats({ai}, 0, 1)
                     /\ IF ~ok /\ SoftRaise(acall.campid, acall.raise_err)
                           THEN RelayHandler
                           ELSE RelayAdvance(1)
    /\ UNCHANGED <<acall, alen, acalls, aother>>
    /\ UNCHANGED notRly

\* send.py lines 2151-2211: do_send of do_easylink_send for one recipient.
EasylinkSend(ok) ==
    /\ acall.adapter = "easylink"
    /\ apc = "loop"
    /\ afailed' = IF ok THEN afailed ELSE afailed + 1
    /\ IF ok
          THEN /\ aout' = Stats({ai}, 1, 0)
               /\ RelayAdvance(1)
          ELSE IF acall.campid = "test"
          THEN /\ aout' = aout
               /\ RelayHandler
          ELSE /\ aout' = Stats({ai}, 0, 1)
               /\ IF SoftRaise(acall.campid, acall.raise_err)
                     THEN RelayHandler
                     ELSE RelayAdvance(1)
    /\ UNCHANGED <<acall, alen, conn, conn_sent, nconn, asent, acalls, aother>>
    /\ UNCHANGED notRly

\* The mutation of ChunkEnd: a call is made one recipient late.
ChunkEnd_Late(i, n) == IF i + BatchSize > n THEN n ELSE i + BatchSize

\* send.py lines 2479-2488 and 2658-2668: the recipients are appended to
\* tolist; a call is made when tolist has BatchSize of them, and one more
\* after the loop for those left over.  The last recipient of the call that
\* begins with recipient i of a stream of n.
ChunkEnd(i, n) == IF i + BatchSize - 1 > n THEN n ELSE i + BatchSize - 1

\* send.py lines 2406-2441 and 2599-2632: do_send of do_sparkpost_send and
\* of do_mailgun_send for the recipients of one call; the stats of an
\* accepted call come with the provider's webhooks.
BatchSend(ok) ==
    /\ acall.adapter \in PerBatch
    /\ apc = "loop"
    /\ LET last == ChunkEnd(ai, alen)
           tolist == ai..last
       IN /\ afailed' = IF ok THEN afailed ELSE afailed + 1
          /\ acalls' = Append(acalls, [k \in 1..(last - ai + 1) |-> ai + k - 1])
          /\ IF ok
                THEN /\ aout' = aout
                     /\ RelayAdvance(last - ai + 1)
                ELSE /\ aout' = Stats(tolist, 0, 1)
                     /\ IF SoftRaise(acall.campid, acall.raise_err)
                           THEN RelayHandler
                           ELSE RelayAdvance(last - ai + 1)
    /\ UNCHANGED <<acall, alen, conn, conn_sent, nconn, asent, aother>>
    /\ UNCHANGED notRly

\* Any other statement of the adapter raises (the settings, the html, the
\* recipient stream, the database): the handler runs.
RelayOther ==
    /\ apc = "loop"
    /\ aother' = TRUE
    /\ RelayHandler
    /\ UNCHANGED <<acall, alen, conn, conn_sent, aout, nconn, asent, afailed,
                   acalls>>
    /\ UNCHANGED notRly

\* send.py line 1771: state = {"conn": None, "conn_sent": 0}.
RlyRest ==
    /\ ai = 1
    /\ conn = FALSE
    /\ conn_sent = 0
    /\ aout = [r \in 1..RlyRecips |-> NoOut]
    /\ arec = NoRec
    /\ araised = FALSE
    /\ nconn = 0
    /\ asent = <<>>
    /\ afailed = 0
    /\ acalls = <<>>
    /\ aother = FALSE

RlyIdle ==
    /\ acall = [adapter |-> "easylink", campid |-> "k1", write_err |-> TRUE,
                raise_err |-> FALSE, msgsperconn |-> 0]
    /\ alen = 0
    /\ apc = "done"
    /\ RlyRest

\* ---- the last step of write_campaign_lists ----------------------------------

\* The rows of domain d in a list block.
DomainCount(rows, d) == Cardinality({i \in 1..Len(rows) : rows[i] = d})

\* campaigns.py lines 288-298: countbydomain[sendid] of the split loop, the
\* rows of the send batch by domain, over all its list blocks.
CountsByDomain(d) ==
    LET RECURSIVE Sum(_)
        Sum(i) == IF i = 0 THEN 0
                  ELSE DomainCount(fjob.blocks[fjob.sinks[i]], d) + Sum(i - 1)
    IN Sum(Len(fjob.sinks))

\* Lines 351-356: c, the recipients of the campaign.
RecipientCount == CountsByDomain("a.com") + CountsByDomain("b.com")

\* With the campaign canceled, what is written is written after the cancel.
AfterCancel(kind) == IF fcamp.canceled THEN fafter \cup {kind} ELSE fafter

\* Lines 342-347: the task that completes the main gather reads the
\* canceled flag and returns when it is set.
FinCheck ==
    /\ fpc = "check"
    /\ fpc' = IF fcamp.canceled THEN "done" ELSE "body"
    /\ UNCHANGED <<fjob, funique, fcamp, fqueue, fbody, fsi, fcpc, fins, fafter,
                   fndrain>>
    /\ UNCHANGED notFin

\* Lines 349-391: count is patched, the html generated and the body
\* written to the data bucket.
FinBody ==
    /\ fpc = "body"
    /\ fcamp' = [fcamp EXCEPT !.count = RecipientCount]
    /\ fbody' = fbody + 1
    /\ fafter' = AfterCancel("body")
    /\ fsi' = 1
    /\ fpc' = "sink"
    /\ UNCHANGED <<fjob, funique, fqueue, fcpc, fins, fndrain>>
    /\ UNCHANGED notFin

\* Lines 434-451: the next obj of sinkobjs; one without a list file is
\* passed over, the sinkstatus of any other is set to false.
FinRegister ==
    /\ fpc = "sink"
    /\ fsi <= Len(fjob.sinks)
    /\ IF fjob.sinks[fsi] \notin fjob.listed
          THEN /\ fsi' = fsi + 1
               /\ UNCHANGED <<fcamp, fafter, fpc>>
          ELSE /\ fcamp' = [fcamp EXCEPT !.sinkstatus[fjob.sinks[fsi]] = "false"]
               /\ fafter' = AfterCancel("sinkstatus")
               /\ fpc' = "insert"
               /\ fsi' = fsi
    /\ UNCHANGED <<fjob, funique, fqueue, fbody, fcpc, fins, fndrain>>
    /\ UNCHANGED notFin

\* Lines 453-479: the rows of obj, one for every domain of countsbydomain
\* of the list file's send batch.
NewRows(obj) ==
    LET row(d) == [sendid |-> fjob.sendid, domain |-> d,
                   count |-> CountsByDomain(d), remaining |-> CountsByDomain(d),
                   sinkid |-> obj, listkey |-> obj]
        ds == {d \in Domains : CountsByDomain(d) > 0}
    IN IF ds = {} THEN <<>>
       ELSE IF "a.com" \in ds /\ "b.com" \in ds THEN <<row("a.com"), row("b.com")>>
       ELSE <<row(CHOOSE d \in ds : TRUE)>>

\* A row of rs has the key of a row of the table.
KeyClash(rs) ==
    \E i \in 1..Len(rs), j \in 1..Len(fqueue) :
       /\ rs[i].sendid = fqueue[j].sendid
       /\ rs[i].domain = fqueue[j].domain

\* Lines 453-479 and 488-493: the transaction that inserts the rows of obj.
\* An insert the table refuses raises: the transaction is rolled back and
\* the handler writes the error.
FinInsert ==
    /\ fpc = "insert"
    /\ LET rs == NewRows(fjob.sinks[fsi])
       IN IF funique /\ KeyClash(rs)
             THEN /\ fcamp' = [fcamp EXCEPT !.finished_at = TRUE,
                                            !.error = "raised"]
                  /\ fpc' = "done"
                  /\ UNCHANGED <<fqueue, fins, fafter, fsi>>
             ELSE /\ fqueue' = fqueue \o rs
                  /\ fins' = fins \o rs
                  /\ fafter' = IF rs # <<>> THEN AfterCancel("queue") ELSE fafter
                  /\ fsi' = fsi + 1
                  /\ fpc' = "sink"
                  /\ UNCHANGED fcamp
    /\ UNCHANGED <<fjob, funique, fbody, fcpc, fndrain>>
    /\ UNCHANGED notFin

\* Lines 481-486: sinks_pushed is set, and finished_at when the campaign
\* has no recipients.
FinPatch ==
    /\ fpc = "sink"
    /\ fsi > Len(fjob.sinks)
    /\ fcamp' = [fcamp EXCEPT !.sinks_pushed = TRUE,
                              !.finished_at = @ \/ RecipientCount = 0]
    /\ fpc' = "done"
    /\ UNCHANGED <<fjob, funique, fqueue, fbody, fsi, fcpc, fins, fafter, fndrain>>
    /\ UNCHANGED notFin

\* CampaignCancel.on_post, lines 1181: the flag is set.
FinCancelMark ==
    /\ fcpc = "idle"
    /\ fcamp' = [fcamp EXCEPT !.canceled = TRUE]
    /\ fcpc' = "delete"
    /\ UNCHANGED <<fjob, funique, fqueue, fbody, fpc, fsi, fins, fafter, fndrain>>
    /\ UNCHANGED notFin

\* Lines 1183-1185: the rows of the campaign are deleted.
FinCancelDelete ==
    /\ fcpc = "delete"
    /\ fqueue' = <<>>
    /\ fcpc' = "finish"
    /\ UNCHANGED <<fjob, funique, fcamp, fbody, fpc, fsi, fins, fafter, fndrain>>
    /\ UNCHANGED notFin

\* Lines 1209-1212: error and finished_at are written.
FinCancelFinish ==
    /\ fcpc = "finish"
    /\ fcamp' = [fcamp EXCEPT !.error = "Canceled", !.finished_at = TRUE]
    /\ fcpc' = "done"
    /\ UNCHANGED <<fjob, funique, fqueue, fbody, fpc, fsi, fins, fafter, fndrain>>
    /\ UNCHANGED notFin

\* check_camps, lines 3033-3077, for a row the company's limits let pass
\* whole: the rows of its send batch and domain are deleted; when the
\* row's sink has no rows left its sinkstatus is set to true, and
\* finished_at is written when no sinkstatus is false.
FinDrain(i) ==
    /\ i \in 1..Len(fqueue)
    /\ LET e == fqueue[i]
           q == SelectSeq(fqueue, LAMBDA r : ~(r.sendid = e.sendid
                                                /\ r.domain = e.domain))
           drained == \A j \in 1..Len(q) : q[j].sinkid # e.sinkid
           c1 == IF drained THEN [fcamp EXCEPT !.sinkstatus[e.sinkid] = "true"]
                 ELSE fcamp
       IN /\ fqueue' = q
          /\ fcamp' = IF drained /\ AllSinksDone(c1)
                         THEN [c1 EXCEPT !.finished_at = TRUE]
                      ELSE c1
    /\ fndrain' = fndrain + 1
    /\ UNCHANGED <<fjob, funique, fbody, fpc, fsi, fcpc, fins, fafter>>
    /\ UNCHANGED notFin

\* The campaign as campaign_start left it (lines 1150-1153), nothing
\* written yet.
FinRest ==
    /\ fcamp = [canceled |-> FALSE, finished_at |-> FALSE, error |-> "",
                sinks_pushed |-> FALSE, count |-> 0,
                sinkstatus |-> [x \in Sinks |-> "none"]]
    /\ fqueue = <<>>
    /\ fbody = 0
    /\ fsi = 1
    /\ fins = <<>>
    /\ fafter = {}
    /\ fndrain = 0

FinIdle ==
    /\ fjob = [sendid |-> "s1", sinks |-> <<"x1">>, listed |-> {},
               blocks |-> [x \in Sinks |-> <<>>]]
    /\ funique = FALSE
    /\ fpc = "done"
    /\ FinRest
    /\ fcpc = "done"

\* ---- the deliveries of one send task ----------------------------------------

\* The first delivery of the task and a second one.
TaskRuns == {1, 2}

\* Recipients of the task.
BodyRecips == 2

\* The provider send tasks; campaigns.py lines 2990-2994: ses, smtprelay and
\* easylink send one message at a time, the others a batch with one call.
SendTasks == {"ses", "smtprelay", "easylink", "sparkpost", "mailgun"}
OneAtATime == {"ses", "smtprelay", "easylink"}

\* send.py lines 1350-1353, 1750-1753, 2048-2051, 2350-2353, 2560-2563: the
\* run reads the body under htmlkey and returns when there is none.
BodyRead(d) ==
    /\ bpc[d] = "idle"
    /\ bpc' = [bpc EXCEPT ![d] = IF bstore THEN "delete" ELSE "done"]
    /\ UNCHANGED <<btask, bstore, btx>>
    /\ UNCHANGED notBod

\* Lines 1355-1356, 1755-1756, 2565-2566: the body object is deleted.
BodyDelete(d) ==
    /\ bpc[d] = "delete"
    /\ bstore' = FALSE
    /\ bpc' = [bpc EXCEPT ![d] = "send"]
    /\ UNCHANGED <<btask, btx>>
    /\ UNCHANGED notBod

\* The recipient loop of the adapter: the next recipient is transmitted
\* to, or the recipients of the task with one call.
BodySend(d) ==
    /\ bpc[d] = "send"
    /\ LET n == IF btask \in OneAtATime THEN 1 ELSE BodyRecips
       IN /\ btx' = [btx EXCEPT ![d] = @ + n]
          /\ bpc' = [bpc EXCEPT ![d] =
                       IF btx[d] + n = BodyRecips THEN "done" ELSE "send"]
    /\ UNCHANGED <<btask, bstore>>
    /\ UNCHANGED notBod

\* send_queued_camp (campaigns.py lines 3243-3309) has written the body;
\* no run has begun.
BodRest ==
    /\ bstore = TRUE
    /\ btx = [d \in TaskRuns |-> 0]

BodIdle ==
    /\ btask = "ses"
    /\ BodRest
    /\ bpc = [d \in TaskRuns |-> "done"]

\* ------------------------------------------------------------------------
\* Routing: the task groups of campaign_start, the filter of the list writer
\* ------------------------------------------------------------------------

\* A recipient's address: the bytes of its local part, and its domain
\* (email.split("@")[1]).
Recipient(local, domain) == [local |-> local, domain |-> domain]

\* a@a.com, c@a.com, h@a.com, b@b.com, e@b.com
Recipients ==
    { Recipient(<<97>>, "a.com"), Recipient(<<99>>, "a.com"),
      Recipient(<<104>>, "a.com"), Recipient(<<98>>, "b.com"),
      Recipient(<<101>>, "b.com") }

\* email.encode("utf-8")
EmailBytes(e) ==
    e.local \o <<64>>
      \o (IF e.domain = "a.com" THEN <<97>> ELSE <<98>>)
      \o <<46, 99, 111, 109>>

\* The loop of djb2, h kept as two digits of base 2^16, the low one first:
\* "h = ((h << 5) + h) + x", cut to 32 bits.
RECURSIVE Djb2Loop(_, _, _)
Djb2Loop(bytes, i, h) ==
    IF i > Len(bytes) THEN h
    ELSE LET low == 33 * h[1] + bytes[i]
             high == 33 * h[2] + (low \div Pow2(16))
         IN Djb2Loop(bytes, i + 1, <<low % Pow2(16), high % Pow2(16)>>)

\* utils.py, djb2: h = 5381, the loop, "h & 0xFFFFFFFF".
djb2(bytes) == Djb2Loop(bytes, 1, <<5381, 0>>)

\* Line 218: "pct = djb2(email) % 100".
HashPct(e) ==
    LET h == djb2(EmailBytes(e))
    IN (h[2] * (Pow2(16) % 100) + h[1]) % 100

\* A domain group as the list writer sees it: None (the rule names no
\* domain group) or the patterns of dg["domainsplit"].
AnyDomain == [any |-> TRUE, domainsplit |-> <<>>]
DomainGroup(patterns) == [any |-> FALSE, domainsplit |-> patterns]

\* db.domaingroups.get(id): the domain groups in the store, <<>> for an id
\* the store does not have.
DomainGroupDb(id) ==
    CASE id = "dgA" -> <<DomainGroup(<<"a.com">>)>>
      [] id = "dgB" -> <<DomainGroup(<<"b.com", "c.com">>)>>
      [] OTHER -> <<>>

\* Lines 968-1018: the sinks a split's policy resolves to, <<>> where the
\* loop goes on to the next split.  "p1" is a published policy of two
\* sinks, "p2" one of a single sink (its pct becomes 100), "p0" a policy
\* never published, "m1" a mailgun account (pct 100); any other id is in
\* no table.
ResolveSinks(policy) ==
    CASE policy = "p1" -> <<[id |-> "x1", pct |-> 60], [id |-> "x2", pct |-> 40]>>
      [] policy = "p2" -> <<[id |-> "x1", pct |-> 100]>>
      [] policy = "m1" -> <<[id |-> "m1", pct |-> 100]>>
      [] OTHER -> <<>>

\* math.ceil of a float f, 0 < f <= 100.
FloatCeil(f) ==
    CHOOSE k \in 1..100 :
       /\ ~Less(ShiftedInt(k, f.x), f.n)
       /\ Less(ShiftedInt(k - 1, f.x), f.n)

\* Lines 961-963: "int(math.ceil((split["pct"] / totalpct) * 100))".
CeilPct(pct, totalpct) ==
    IF pct = 0 THEN 0
    ELSE IF pct = totalpct THEN 100
    ELSE FloatCeil(FloatMul100(FloatDiv(pct, totalpct)))

RECURSIVE SumPct(_, _)
SumPct(splits, i) ==
    IF i > Len(splits) THEN 0 ELSE splits[i].pct + SumPct(splits, i + 1)

\* Lines 955-963: the pct of the splits of one rule after the rule was
\* looked at: 100 for a single split, else scaled up to a total of 100
\* when the total is positive.
SplitPcts(splits) ==
    IF Len(splits) = 1 THEN <<100>>
    ELSE LET totalpct == SumPct(splits, 1)
         IN [i \in 1..Len(splits) |->
               IF totalpct > 0 THEN CeilPct(splits[i].pct, totalpct)
               ELSE splits[i].pct]

\* Lines 966-1029: "for split in rule["splits"]": a split without a policy
\* or with one that resolves to nothing is passed over, startpct as it
\* was; any other split makes a task group and moves startpct on.  The
\* fields rule and split say where the group came from.
RECURSIVE SplitGroups(_, _, _, _, _, _)
SplitGroups(dgs, splits, pcts, i, startpct, r) ==
    IF i > Len(splits) THEN <<>>
    ELSE LET sinks == ResolveSinks(splits[i].policy)
         IN IF sinks = <<>>
            THEN SplitGroups(dgs, splits, pcts, i + 1, startpct, r)
            ELSE <<[domaingroups |-> dgs, startpct |-> startpct,
                    endpct |-> startpct + pcts[i], sinks |-> sinks,
                    policy |-> splits[i].policy, rule |-> r, split |-> i]>>
                 \o SplitGroups(dgs, splits, pcts, i + 1, startpct + pcts[i], r)

\* Lines 944-1029: "for rule in route["published"]["rules"]": the rule's
\* domain group is added to domaingroups (None for a rule without one; a
\* rule whose domain group is not in the store is passed over), then its
\* splits make their task groups with the domaingroups collected so far.
RECURSIVE RuleGroups(_, _, _)
RuleGroups(rules, r, dgs) ==
    IF r > Len(rules) THEN <<>>
    ELSE IF rules[r].domaingroup # "" /\ DomainGroupDb(rules[r].domaingroup) = <<>>
         THEN RuleGroups(rules, r + 1, dgs)
    ELSE LET dg == IF rules[r].domaingroup = "" THEN AnyDomain
                   ELSE DomainGroupDb(rules[r].domaingroup)[1]
             domaingroups == Append(dgs, dg)
         IN SplitGroups(domaingroups, rules[r].splits,
                        SplitPcts(rules[r].splits), 1, 0, r)
            \o RuleGroups(rules, r + 1, domaingroups)

\* Lines 198-205: eval_dg.
eval_dg(dg, e) ==
    dg.any \/ SeqHas(dg.domainsplit, LAMBDA domain : fnmatch(e.domain, domain))

\* Lines 210-214: the index of the first domain group that takes the
\* address, 0 when none does.
Found(dgs, e) ==
    IF \E i \in 1..Len(dgs) : eval_dg(dgs[i], e)
    THEN CHOOSE i \in 1..Len(dgs) :
            /\ eval_dg(dgs[i], e)
            /\ \A j \in 1..(i - 1) : ~eval_dg(dgs[j], e)
    ELSE 0

\* Mutant: the task group's own domain group decides, the ones before it
\* are not looked at.
filter_result_Own(g, e) ==
    /\ eval_dg(g.domaingroups[Len(g.domaingroups)], e)
    /\ HashPct(e) >= g.startpct
    /\ HashPct(e) < g.endpct

\* Lines 207-219: filter_result of the list writer of task group g.
filter_result(g, e) ==
    /\ Found(g.domaingroups, e) = Len(g.domaingroups)
    /\ HashPct(e) >= g.startpct
    /\ HashPct(e) < g.endpct

\* Lines 942-1032 of campaign_start: the task groups are made; without
\* one, "No valid domain routes found" is raised.
RouteStart ==
    /\ rtpc = "start"
    /\ rgroups' = RuleGroups(rrules, 1, <<>>)
    /\ rtpc' = IF rgroups' = <<>> THEN "raised" ELSE "write"
    /\ UNCHANGED <<rrules, rgi, rwritten>>
    /\ UNCHANGED notRt

\* Line 221, write_campaign_lists of the next task group: "rows = [row for
\* row in rows if filter_result(row)]".
RouteWrite ==
    /\ rtpc = "write"
    /\ rwritten' = Append(rwritten,
                          {e \in Recipients : filter_result(rgroups[rgi], e)})
    /\ rgi' = rgi + 1
    /\ rtpc' = IF rgi = Len(rgroups) THEN "done" ELSE "write"
    /\ UNCHANGED <<rrules, rgroups>>
    /\ UNCHANGED notRt

RtRest ==
    /\ rgroups = <<>>
    /\ rgi = 1
    /\ rwritten = <<>>

RtIdle ==
    /\ rrules = <<>>
    /\ rtpc = "done"
    /\ RtRest

MoreIdle == ThrIdle /\ GatIdle /\ RlyIdle /\ FinIdle /\ BodIdle /\ RtIdle

ExtIdle == EvIdle /\ TrkIdle /\ SndIdle /\ MoreIdle

\* ---- configurations of the limiter ---------------------------------------

\* The window limit L of the limiter scenarios.
LimitL == 3

CoBase ==
    [minlimit |-> None, hourlimit |-> None, daylimit |-> None,
     monthlimit |-> None, persendlimit |-> None, paid |-> FALSE,
     trialend |-> "none", inreview |-> FALSE, paused |-> FALSE,
     banned |-> FALSE]

Throttle(route, domainsparsed, minlimit, hourlimit, daylimit) ==
    [route |-> route, domainsparsed |-> domainsparsed, minlimit |-> minlimit,
     hourlimit |-> hourlimit, daylimit |-> daylimit]

EmptyStore == [k \in AllKeys |-> None]

\* A store in which earlier calls of the window counted n sends for cid.
UsedStore(cid, n) ==
    [k \in AllKeys |->
        IF k[2] = cid /\ k[1] \in CompanyKinds \cup DomainKinds THEN n ELSE None]

\* A store holding the credit pools of a paid company.
CreditStore(cid, credits, expire) ==
    [k \in AllKeys |->
        IF k = Key("credits", cid, "-", "-") THEN credits
        ELSE IF k = Key("credits_expire", cid, "-", "-") THEN expire
        ELSE None]

Scenario(co, dts, store, tg) ==
    [company |-> co, throttles |-> dts, store |-> store, targets |-> tg]

\* Without a throttle the route and the domain of a call change nothing.
OneTarget == {<<"r1", "a.com">>}
SomeTargets == {<<"r1", "a.com">>, <<"r1", "b.com">>, <<"r2", "b.com">>}

\* The values of "requested": nothing, some, more than the window holds.
Requests == {0, 2, LimitL + 1}

\* Configurations that let sends through.
OpenScenarios ==
    { Scenario([CoBase EXCEPT !.daylimit = LimitL], <<>>, EmptyStore, OneTarget),
      Scenario([CoBase EXCEPT !.daylimit = LimitL], <<>>, UsedStore("c1", 1),
               OneTarget),
      Scenario([CoBase EXCEPT !.minlimit = 2, !.hourlimit = LimitL,
                              !.daylimit = LimitL, !.monthlimit = LimitL + 1,
                              !.trialend = "future"],
               <<Throttle("r1", <<"a.com">>, 1, None, 2)>>, EmptyStore,
               SomeTargets),
      Scenario([CoBase EXCEPT !.hourlimit = StrVal, !.monthlimit = LimitL],
               <<Throttle("r1", <<"*">>, 1, StrVal, LimitL),
                 Throttle("r1", <<"b.com", "a.com">>, 2, None, None)>>,
               EmptyStore, SomeTargets),
      Scenario([CoBase EXCEPT !.paid = TRUE, !.persendlimit = 2,
                              !.trialend = "past"],
               <<>>, CreditStore("c1", 1, LimitL - 1), OneTarget),
      Scenario([CoBase EXCEPT !.daylimit = LimitL],
               <<Throttle("r1", <<"*">>, None, 0, None),
                 Throttle("r2", <<"b.com">>, None, None, 1)>>,
               UsedStore("c1", 1), SomeTargets) }

\* Configurations of lines 253-276: every call returns 0.
ZeroScenarios ==
    { Scenario(co, <<>>, st, OneTarget) :
        co \in { [CoBase EXCEPT !.minlimit = 0],
                 [CoBase EXCEPT !.hourlimit = 0, !.daylimit = LimitL],
                 [CoBase EXCEPT !.daylimit = 0],
                 [CoBase EXCEPT !.monthlimit = -1, !.paid = TRUE],
                 [CoBase EXCEPT !.paused = TRUE, !.daylimit = LimitL],
                 [CoBase EXCEPT !.banned = TRUE],
                 [CoBase EXCEPT !.inreview = TRUE, !.paid = TRUE],
                 [CoBase EXCEPT !.trialend = "past", !.daylimit = LimitL] },
        st \in { EmptyStore, UsedStore("c1", 1), CreditStore("c1", 2, 1) } }
    \cup
    { Scenario([CoBase EXCEPT !.daylimit = LimitL],
               <<Throttle("r1", <<"a.com">>, 0, None, None),
                 Throttle("r2", <<"*">>, None, None, -1),
                 Throttle("r1", <<"b.com">>, None, 0, None)>>,
               UsedStore("c1", 1), SomeTargets) }

LimIdle ==
    /\ lpc = [p \in Procs |-> "idle"]
    /\ larg = [p \in Procs |-> NoArg]
    /\ lrd = [p \in Procs |-> NoReads]
    /\ lidx = [p \in Procs |-> 1]
    /\ ldirty = [p \in Procs |-> FALSE]
    /\ granted = [k \in Companies \X Routes \X Domains |-> 0]
    /\ ncalls = 0

\* The campaign side at rest: nothing queued, no pass, no task.
DrainIdle ==
    /\ camp = [k \in Camps |-> NoCamp]
    /\ queue = {}
    /\ blocks = [s \in SendIds |-> NoBlock]
    /\ now = 1
    /\ lock = "none"
    /\ dpc = [p \in Procs |-> "idle"]
    /\ dlast = [p \in Procs |-> NoKey]
    /\ dpage = [p \in Procs |-> <<>>]
    /\ alltasks = [p \in Procs |-> <<>>]
    /\ dundo = [p \in Procs |-> NoUndo]
    /\ tasks = <<>>
    /\ sent = [k \in EntryKeys |-> <<>>]
    /\ lastgrant = [p \in Procs |-> NoGrant]
    /\ nenv = 0
    /\ cpc = [k \in Camps |-> "idle"]
    /\ delivered = [s \in SendIds |-> <<>>]

LimInit ==
    /\ \E sc \in OpenScenarios \cup ZeroScenarios :
          /\ company = [c \in Companies |-> sc.company]
          /\ throttles = sc.throttles
          /\ targets = sc.targets
          /\ redis = sc.store
          /\ redis0 = sc.store
    /\ LimIdle
    /\ DrainIdle
    /\ StartIdle
    /\ SplitIdle
    /\ ExtIdle

LimNext ==
    \/ \E p \in Procs, cid \in Companies, t \in targets, requested \in Requests :
          LimCall(p, cid, t[1], t[2], requested)
    \/ \E p \in Procs : LimWatch(p)
    \/ \E p \in Procs : LimGet(p)
    \/ \E p \in Procs : LimBlocked(p)
    \/ \E p \in Procs : LimExec(p)
    \/ \E p \in Procs : LimWatchError(p)

vars == <<limVars, drainVars, startVars, splitVars, extVars>>

SpecLimit == LimInit /\ [][LimNext]_vars

\* Configurations with a per-send cap below zero: alone, with the day limit
\* reached, and for a paid company with credits.
CapScenarios ==
    { Scenario([CoBase EXCEPT !.persendlimit = -1], <<>>, EmptyStore, OneTarget),
      Scenario([CoBase EXCEPT !.persendlimit = -1, !.daylimit = LimitL], <<>>,
               UsedStore("c1", 1), OneTarget),
      Scenario([CoBase EXCEPT !.persendlimit = -1, !.daylimit = LimitL], <<>>,
               UsedStore("c1", LimitL), OneTarget),
      Scenario([CoBase EXCEPT !.persendlimit = -1, !.paid = TRUE], <<>>,
               CreditStore("c1", 1, 1), OneTarget),
      Scenario([CoBase EXCEPT !.persendlimit = 0, !.minlimit = 0], <<>>,
               EmptyStore, OneTarget) }

LimCapInit ==
    /\ \E sc \in CapScenarios :
          /\ company = [c \in Companies |-> sc.company]
          /\ throttles = sc.throttles
          /\ targets = sc.targets
          /\ redis = sc.store
          /\ redis0 = sc.store
    /\ LimIdle
    /\ DrainIdle
    /\ StartIdle
    /\ SplitIdle
    /\ ExtIdle

SpecLimitCap == LimCapInit /\ [][LimNext]_vars

\* ---- configurations of the drainer ---------------------------------------

\* What write_campaign_lists inserts for one (sendid, domain): lines 452-479.
Entry(campid, sendid, domain, count, sinkid, policytype) ==
    [cid |-> "c1", campid |-> campid, sendid |-> sendid, domain |-> domain,
     count |-> count, remaining |-> count, sinkid |-> sinkid,
     policytype |-> policytype]

\* A campaign that was started and whose lists are written: sent_at is set,
\* the sinks it was pushed to have status false (lines 440-450).
StartedCamp(pushed) ==
    [NoCamp EXCEPT !.sent_at = 0,
                   !.sinkstatus = [x \in Sinks |->
                                     IF x \in pushed THEN "false" ELSE "none"]]

\* The list block lists/<campid>-<gatherid>/<sinkid>-<sendid>-...: its rows.
Block(campid, rows) == [campid |-> campid, rows |-> rows]

QueueScenario(cs, q, bl, cos) ==
    [camp |-> cs, queue |-> q, blocks |-> bl, companies |-> cos]

A == "a.com"
B == "b.com"

\* The company's limits: none, two per call, LimitL per day.
Unlimited == CoBase
PerSend == [CoBase EXCEPT !.persendlimit = 2]
PerDay == [CoBase EXCEPT !.daylimit = LimitL]

QueueScenarios ==
    { \* one campaign, one block on a batch-sending sink
      QueueScenario([k \in Camps |-> IF k = "k1" THEN StartedCamp({"x1"})
                                     ELSE NoCamp],
                    {Entry("k1", "s1", A, 3, "x1", "mta"),
                     Entry("k1", "s1", B, 1, "x1", "mta")},
                    [s \in SendIds |-> IF s = "s1" THEN Block("k1", <<A, B, A, A>>)
                                       ELSE NoBlock],
                    {Unlimited, PerSend, PerDay}),
      \* one campaign, two blocks on two sinks, one of them a one-message-
      \* at-a-time provider
      QueueScenario([k \in Camps |-> IF k = "k1" THEN StartedCamp({"x1", "x2"})
                                     ELSE NoCamp],
                    {Entry("k1", "s1", A, 3, "x1", "ses"),
                     Entry("k1", "s2", A, 2, "x2", "mailgun"),
                     Entry("k1", "s2", B, 1, "x2", "mailgun")},
                    [s \in SendIds |-> IF s = "s1" THEN Block("k1", <<A, A, A>>)
                                       ELSE Block("k1", <<A, B, A>>)],
                    {PerDay}),
      \* two campaigns
      QueueScenario([k \in Camps |-> IF k = "k1" THEN StartedCamp({"x1"})
                                     ELSE StartedCamp({"x2"})],
                    {Entry("k1", "s1", A, 3, "x1", "ses"),
                     Entry("k2", "s2", B, 1, "x2", "mta"),
                     Entry("k2", "s2", A, 1, "x2", "mta")},
                    [s \in SendIds |-> IF s = "s1" THEN Block("k1", <<A, A, A>>)
                                       ELSE Block("k2", <<B, A>>)],
                    {PerDay}) }

Init ==
    /\ throttles = <<>>
    /\ targets = OneTarget
    /\ redis = EmptyStore
    /\ redis0 = EmptyStore
    /\ LimIdle
    /\ \E sc \in QueueScenarios :
          /\ \E co \in sc.companies : company = [c \in Companies |-> co]
          /\ camp = sc.camp
          /\ queue = sc.queue
          /\ blocks = sc.blocks
    /\ now = 1
    /\ lock = "none"
    /\ dpc = [p \in Procs |-> "idle"]
    /\ dlast = [p \in Procs |-> NoKey]
    /\ dpage = [p \in Procs |-> <<>>]
    /\ alltasks = [p \in Procs |-> <<>>]
    /\ dundo = [p \in Procs |-> NoUndo]
    /\ tasks = <<>>
    /\ sent = [k \in EntryKeys |-> <<>>]
    /\ lastgrant = [p \in Procs |-> NoGrant]
    /\ nenv = 0
    /\ cpc = [k \in Camps |-> "idle"]
    /\ delivered = [s \in SendIds |-> <<>>]
    /\ StartIdle
    /\ SplitIdle
    /\ ExtIdle

Next ==
    \/ \E p \in Procs : DrainLock(p)
    \/ \E p \in Procs : DrainBusy(p)
    \/ \E p \in Procs : DrainPage(p)
    \/ \E p \in Procs : DrainGroup(p)
    \/ \E p \in Procs : DrainDispatch(p)
    \/ \E p \in Procs, k \in 0..(2 * LimitL) : DrainFail(p, k)
    \/ TaskSend
    \/ TaskCanceled
    \/ TaskError
    \/ \E k \in Camps : CancelMark(k)
    \/ \E k \in Camps : CancelDelete(k)
    \/ \E k \in Camps : CancelFinish(k)
    \/ \E k \in Camps : CancelSinkError(k)
    \/ \E x \in Sinks, k \in Camps : SinkReport(x, k)

Spec == Init /\ [][Next]_vars

\* A worker that runs check_camps executes its statements one after the
\* other: a pass that is inside the loop (at the page query, at a group of
\* the page, at run_tasks) gets to its next position.
DrainStep(p) ==
    /\ dpc[p] # "idle"
    /\ dpc' \in [Procs -> {"idle", "page", "group", "dispatch"}]
    /\ dpc'[p] # dpc[p]

\* One campaign of four messages on one sink, the company limited to
\* LimitL a day.
DayInit ==
    /\ Init
    /\ company = [c \in Companies |-> PerDay]
    /\ \A e \in queue : e.sendid = "s1"

SpecFair == DayInit /\ [][Next]_vars /\ \A p \in Procs : WF_dpc(DrainStep(p))

\* The scheduler calls check_camps again and again: a worker that is not
\* inside a pass starts one when the lock is free.
DrainStart(p) ==
    /\ dpc[p] = "idle"
    /\ lock = "none"
    /\ dpc' = [dpc EXCEPT ![p] = "page"]

\* Two campaigns of one company without limits of its own.  Campaign k1
\* sends over route r1, where a domain throttle allows nothing a day for
\* a.com and b.com (or for a.com alone); campaign k2 sends over route r2,
\* which has no throttle.  The groups of k1 come first in the page order.
StarveThrottles ==
    { <<Throttle("r1", <<A, B>>, None, None, 0)>>,
      <<Throttle("r1", <<A>>, None, None, 0)>> }

StarveInit ==
    /\ throttles \in StarveThrottles
    /\ targets = OneTarget
    /\ redis = EmptyStore
    /\ redis0 = EmptyStore
    /\ LimIdle
    /\ company = [c \in Companies |-> Unlimited]
    /\ camp = [k \in Camps |->
                 IF k = "k1" THEN StartedCamp({"x1"})
                 ELSE [StartedCamp({"x2"}) EXCEPT !.route = "r2"]]
    /\ queue = {Entry("k1", "s1", A, 1, "x1", "mta"),
                Entry("k1", "s1", B, 1, "x1", "mta"),
                Entry("k2", "s2", A, 1, "x2", "ses")}
    /\ blocks = [s \in SendIds |-> IF s = "s1" THEN Block("k1", <<A, B>>)
                                   ELSE Block("k2", <<A>>)]
    /\ now = 1
    /\ lock = "none"
    /\ dpc = [p \in Procs |-> "idle"]
    /\ dlast = [p \in Procs |-> NoKey]
    /\ dpage = [p \in Procs |-> <<>>]
    /\ alltasks = [p \in Procs |-> <<>>]
    /\ dundo = [p \in Procs |-> NoUndo]
    /\ tasks = <<>>
    /\ sent = [k \in EntryKeys |-> <<>>]
    /\ lastgrant = [p \in Procs |-> NoGrant]
    /\ nenv = 0
    /\ cpc = [k \in Camps |-> "idle"]
    /\ delivered = [s \in SendIds |-> <<>>]
    /\ StartIdle
    /\ SplitIdle
    /\ ExtIdle

SpecStarve ==
    /\ StarveInit
    /\ [][Next]_vars
    /\ \A p \in Procs : WF_dpc(DrainStep(p)) /\ WF_dpc(DrainStart(p))

\* ---- configurations of the activation ------------------------------------

\* Campaigns not yet sent, each of them due on its schedule or not.
StartInit ==
    /\ \E due \in [Camps -> BOOLEAN] :
          camp = [k \in Camps |-> [NoCamp EXCEPT !.due = due[k]]]
    /\ now = 1
    /\ queue = {}
    /\ blocks = [s \in SendIds |-> NoBlock]
    /\ lock = "none"
    /\ dpc = [p \in Procs |-> "idle"]
    /\ dlast = [p \in Procs |-> NoKey]
    /\ dpage = [p \in Procs |-> <<>>]
    /\ alltasks = [p \in Procs |-> <<>>]
    /\ dundo = [p \in Procs |-> NoUndo]
    /\ tasks = <<>>
    /\ sent = [k \in EntryKeys |-> <<>>]
    /\ lastgrant = [p \in Procs |-> NoGrant]
    /\ nenv = 0
    /\ cpc = [k \in Camps |-> "idle"]
    /\ delivered = [s \in SendIds |-> <<>>]
    /\ company = [c \in Companies |-> CoBase]
    /\ throttles = <<>>
    /\ targets = OneTarget
    /\ redis = EmptyStore
    /\ redis0 = EmptyStore
    /\ LimIdle
    /\ StartIdle
    /\ SplitIdle
    /\ ExtIdle

StartNext ==
    \/ \E q \in Requests0, k \in Camps : PostUpdate(q, k)
    \/ \E q \in Requests0 : PostDispatch(q)
    \/ \E p \in Procs : SchedSelect(p)
    \/ \E p \in Procs : SchedBusy(p)
    \/ \E p \in Procs : SchedMark(p)
    \/ \E p \in Procs : SchedUpdate(p)
    \/ \E p \in Procs : SchedDispatch(p)
    \/ \E p \in Procs : SchedPatch(p)
    \/ \E p \in Procs : SchedError(p)
    \/ \E p \in Procs : SchedCommit(p)
    \/ StartRead
    \/ StartPatch

SpecStart == StartInit /\ [][StartNext]_vars

\* ---- configurations of the split loop ------------------------------------

\* The domains of n rows.
Rows(n) == [i \in 1..n |-> IF i % 3 = 0 THEN B ELSE A]

\* The pct of the sinks of a policy, in order.
SinkPcts ==
    { <<100>>, <<70, 30>>, <<58, 42>>, <<50, 50>>, <<34, 33, 33>>, <<29, 71>>,
      <<60>>, <<60, 60>>, <<40, 40>> }

\* Lines 262-264: there are rows; pct = 0, cnt = 0.
SplitInit ==
    /\ \E n \in 1..MaxRows : wrows = Rows(n)
    /\ wsinks \in SinkPcts
    /\ wpc = "for"
    /\ wsi = 0
    /\ wcnt = 0
    /\ wpct = 0
    /\ wlistcnt = 0
    /\ wout = <<>>
    /\ wblocks = <<>>
    /\ countbydomain = NoCounts
    /\ company = [c \in Companies |-> CoBase]
    /\ throttles = <<>>
    /\ targets = OneTarget
    /\ redis = EmptyStore
    /\ redis0 = EmptyStore
    /\ LimIdle
    /\ DrainIdle
    /\ StartIdle
    /\ ExtIdle

SplitNext ==
    \/ SplitSink
    \/ SplitRow
    \/ SplitWrite

SpecSplit == SplitInit /\ [][SplitNext]_vars


\* ---- configurations of the event handlers -------------------------------

\* The events: what each path can hand to write_list / write_txn.
\* Track.on_get: open, click, unsub, the link tracked or not; the sink's
\* Events: these and complaint, hard; the provider webhooks: hard, complaint.
EventSet ==
    {Event("track", k, t, tr, TRUE) :
        k \in {"list", "txn"}, t \in {"open", "click", "unsub"}, tr \in BOOLEAN}
    \cup {Event("events", k, t, TRUE, TRUE) :
        k \in {"list", "txn"}, t \in {"open", "complaint", "hard"}}
    \cup {Event(p, k, t, TRUE, TRUE) :
        p \in {"ses", "sp", "mg"}, k \in {"list", "txn"}, t \in {"hard", "complaint"}}
    \cup {Event("mg", "list", "hard", TRUE, FALSE)}

EvInit ==
    /\ LimIdle
    /\ company = [c \in Companies |-> CoBase]
    /\ throttles = <<>>
    /\ targets = OneTarget
    /\ redis = EmptyStore
    /\ redis0 = EmptyStore
    /\ DrainIdle
    /\ StartIdle
    /\ SplitIdle
    /\ eev \in EventSet
    /\ EvRest
    /\ TrkIdle
    /\ SndIdle
    /\ MoreIdle

EvNext ==
    \/ \E h \in Handlers :
          \/ EvDeliver(h)
          \/ EvSpDedup(h)
          \/ WriteEnter(h)
          \/ WriteInsert(h)
          \/ WriteTxnAll(h)
          \/ WriteSupp(h)
          \/ WriteCount(h)
          \/ WriteHook(h)
          \/ WriteRaise(h)
          \/ PathStat(h)
    \/ WriteLists

SpecEvents == EvInit /\ [][EvNext]_vars

\* ---- configurations of the tracking paths --------------------------------

\* The message was handed to the provider; its confirmation and the
\* recipient's requests are still to come.
TrkInit ==
    /\ LimIdle
    /\ company = [c \in Companies |-> CoBase]
    /\ throttles = <<>>
    /\ targets = OneTarget
    /\ redis = EmptyStore
    /\ redis0 = EmptyStore
    /\ DrainIdle
    /\ StartIdle
    /\ SplitIdle
    /\ EvIdle
    /\ SndIdle
    /\ MoreIdle
    /\ trow = FALSE
    /\ pending = <<>>
    /\ kpc \in [TrkReqs -> {"idle", "none"}]
    /\ whpc = "idle"
    /\ whlist = <<>>
    /\ nproc = [r \in TrkReqs |-> 0]
    /\ nconf \in 0..MaxConf

TrkNext ==
    \/ \E r \in TrkReqs : TrackRead(r) \/ TrackPush(r) \/ TrackProcess(r)
    \/ ConfInsert
    \/ ConfDrain
    \/ ConfReplay

SpecTrack == TrkInit /\ [][TrkNext]_vars

\* ---- configurations of one send -------------------------------------------

\* A message sent through send_backend_mail has one recipient and starts
\* in the adapter; a task of a campaign starts in send_queued_camp, its
\* list written.
SndInit ==
    /\ LimIdle
    /\ company = [c \in Companies |-> CoBase]
    /\ throttles = <<>>
    /\ targets = OneTarget
    /\ redis = EmptyStore
    /\ redis0 = EmptyStore
    /\ DrainIdle
    /\ StartIdle
    /\ SplitIdle
    /\ EvIdle
    /\ TrkIdle
    /\ MoreIdle
    /\ \/ /\ xcall \in BackendCalls
          /\ xpc = "loop"
          /\ xleft = 1
       \/ /\ xcall \in CampCalls
          /\ xpc = "check"
          /\ xleft \in 1..MaxRecips
    /\ SndRest

SndNext ==
    \/ CampCancel
    \/ CampCheck
    \/ SinkSettings
    \/ SinkPost
    \/ SinkFatal
    \/ \E ok \in BOOLEAN : AdapterSend(ok)
    \/ AdapterFatal

SpecSend == SndInit /\ [][SndNext]_vars

\* ---- configurations of the domain throttles -------------------------------

ThrInit ==
    /\ LimIdle
    /\ company = [c \in Companies |-> CoBase]
    /\ throttles = <<>>
    /\ targets = OneTarget
    /\ redis = EmptyStore
    /\ redis0 = EmptyStore
    /\ DrainIdle
    /\ StartIdle
    /\ SplitIdle
    /\ EvIdle
    /\ TrkIdle
    /\ SndIdle
    /\ dtrows \in ThrottleLists
    /\ dttarget = <<"r1", "a.com">>
    /\ dtlimits = <<>>
    /\ GatIdle
    /\ RlyIdle
    /\ FinIdle
    /\ BodIdle
    /\ RtIdle

ThrNext == \E r \in Routes, d \in Domains : ThrottleEval(r, d)

SpecThrottle == ThrInit /\ [][ThrNext]_vars

\* ---- configurations of the gather barrier ---------------------------------

GatInit ==
    /\ LimIdle
    /\ company = [c \in Companies |-> CoBase]
    /\ throttles = <<>>
    /\ targets = OneTarget
    /\ redis = EmptyStore
    /\ redis0 = EmptyStore
    /\ DrainIdle
    /\ StartIdle
    /\ SplitIdle
    /\ EvIdle
    /\ TrkIdle
    /\ SndIdle
    /\ ThrIdle
    /\ RlyIdle
    /\ FinIdle
    /\ BodIdle
    /\ RtIdle
    /\ gremove \in BOOLEAN
    /\ GatRest
    /\ ndup = 0

GatNext ==
    \E t \in Runs :
       \/ GatherAdd(t)
       \/ GatherCount(t)
       \/ GatherRemove(t)
       \/ GatherSelect(t)
       \/ GatherReturn(t)

SpecGather == GatInit /\ [][GatNext]_vars

\* ---- configurations of the adapter run -------------------------------------

RlyInit ==
    /\ LimIdle
    /\ company = [c \in Companies |-> CoBase]
    /\ throttles = <<>>
    /\ targets = OneTarget
    /\ redis = EmptyStore
    /\ redis0 = EmptyStore
    /\ DrainIdle
    /\ StartIdle
    /\ SplitIdle
    /\ EvIdle
    /\ TrkIdle
    /\ SndIdle
    /\ ThrIdle
    /\ GatIdle
    /\ FinIdle
    /\ BodIdle
    /\ RtIdle
    /\ acall \in RelayCalls
    /\ alen \in 0..RlyRecips
    /\ apc = IF alen = 0 THEN "done" ELSE "loop"
    /\ RlyRest

RlyNext ==
    \/ \E out \in {"ok", "connfail", "sendfail"} : RelaySend(out)
    \/ \E ok \in BOOLEAN : EasylinkSend(ok)
    \/ \E ok \in BOOLEAN : BatchSend(ok)
    \/ RelayOther

SpecRelay == RlyInit /\ [][RlyNext]_vars

\* ---- configurations of the last step of write_campaign_lists ---------------

\* The jobs: one sink with the whole send batch; a policy of two sinks that
\* share the send batch, with a domain in both blocks or a domain each; a
\* campaign without recipients.
FinJobs ==
    { [sendid |-> "s1", sinks |-> <<"x1">>, listed |-> {"x1"},
       blocks |-> [x \in Sinks |-> IF x = "x1" THEN <<A, A, B>> ELSE <<>>]],
      [sendid |-> "s1", sinks |-> <<"x1", "x2">>, listed |-> {"x1", "x2"},
       blocks |-> [x \in Sinks |-> IF x = "x1" THEN <<A, B>> ELSE <<A>>]],
      [sendid |-> "s1", sinks |-> <<"x1", "x2">>, listed |-> {"x1", "x2"},
       blocks |-> [x \in Sinks |-> IF x = "x1" THEN <<A>> ELSE <<B>>]],
      [sendid |-> "s1", sinks |-> <<"x1">>, listed |-> {},
       blocks |-> [x \in Sinks |-> <<>>]] }

FinInit ==
    /\ LimIdle
    /\ company = [c \in Companies |-> CoBase]
    /\ throttles = <<>>
    /\ targets = OneTarget
    /\ redis = EmptyStore
    /\ redis0 = EmptyStore
    /\ DrainIdle
    /\ StartIdle
    /\ SplitIdle
    /\ EvIdle
    /\ TrkIdle
    /\ SndIdle
    /\ ThrIdle
    /\ GatIdle
    /\ RlyIdle
    /\ BodIdle
    /\ RtIdle
    /\ fjob \in FinJobs
    /\ funique \in BOOLEAN
    /\ fpc = "check"
    /\ fcpc = "idle"
    /\ FinRest

FinNext ==
    \/ FinCheck
    \/ FinBody
    \/ FinRegister
    \/ FinInsert
    \/ FinPatch
    \/ FinCancelMark
    \/ FinCancelDelete
    \/ FinCancelFinish
    \/ \E i \in 1..3 : FinDrain(i)

SpecPublish == FinInit /\ [][FinNext]_vars

\* ---- configurations of the deliveries of one send task ----------------------

BodInit ==
    /\ LimIdle
    /\ company = [c \in Companies |-> CoBase]
    /\ throttles = <<>>
    /\ targets = OneTarget
    /\ redis = EmptyStore
    /\ redis0 = EmptyStore
    /\ DrainIdle
    /\ StartIdle
    /\ SplitIdle
    /\ EvIdle
    /\ TrkIdle
    /\ SndIdle
    /\ ThrIdle
    /\ GatIdle
    /\ RlyIdle
    /\ FinIdle
    /\ RtIdle
    /\ btask \in SendTasks
    /\ BodRest
    /\ bpc = [d \in TaskRuns |-> "idle"]

BodNext ==
    \E d \in TaskRuns :
       \/ BodyRead(d)
       \/ BodyDelete(d)
       \/ BodySend(d)

SpecRedeliver == BodInit /\ [][BodNext]_vars

\* ---- configurations of the routing -----------------------------------------

\* The pct values of the splits of a rule, as configured.
PctLists ==
    { <<50>>, <<1, 1>>, <<1, 2>>, <<0, 0>>, <<0, 3>>, <<1, 1, 1>>, <<7, 93>> }

\* The policies of the splits: every one resolves; the first split has
\* none; the last one names a policy that is in no table.
PolicyPatterns == {"all", "first", "last"}

PolicyAt(pattern, i, n) ==
    IF pattern = "first" /\ i = 1 THEN ""
    ELSE IF pattern = "last" /\ i = n THEN "gone"
    ELSE IF i = 1 THEN "p1"
    ELSE IF i = 2 THEN "m1"
    ELSE "p2"

RouteSplits ==
    { [i \in 1..Len(pcts) |->
         [pct |-> pcts[i], policy |-> PolicyAt(pattern, i, Len(pcts))]] :
      pcts \in PctLists, pattern \in PolicyPatterns }

\* A rule: no domain group, one of the store, one the store has lost.
RouteRules ==
    [domaingroup : {"", "dgA", "dgB", "dgGone"}, splits : RouteSplits]

RtInit ==
    /\ LimIdle
    /\ company = [c \in Companies |-> CoBase]
    /\ throttles = <<>>
    /\ targets = OneTarget
    /\ redis = EmptyStore
    /\ redis0 = EmptyStore
    /\ DrainIdle
    /\ StartIdle
    /\ SplitIdle
    /\ EvIdle
    /\ TrkIdle
    /\ SndIdle
    /\ ThrIdle
    /\ GatIdle
    /\ RlyIdle
    /\ FinIdle
    /\ BodIdle
    /\ rrules \in {<<r>> : r \in RouteRules}
                    \cup {<<r1, r2>> : r1 \in RouteRules, r2 \in RouteRules}
    /\ rtpc = "start"
    /\ RtRest

RtNext ==
    \/ RouteStart
    \/ RouteWrite

SpecRoute == RtInit /\ [][RtNext]_vars

\* ------------------------------------------------------------------------
\* Claims about the rate limiter (under SpecLimit)
\* ------------------------------------------------------------------------

RECURSIVE SumOver(_, _)
SumOver(S, f) ==
    IF S = {} THEN 0
    ELSE LET x == CHOOSE y \in S : TRUE IN f[x] + SumOver(S \ {x}, f)

\* Sum of the values returned to the callers of company c.
CompanyGranted(c) == SumOver({c} \X Routes \X Domains, granted)

\* What a window with limit L still holds when c0 sends are counted in it.
Headroom(L, c0) == IF c0 >= L THEN 0 ELSE L - c0

\* C1: rate limiter conservation.  For every company window (minute, hour,
\* day, month) with a limit L > 0, under every interleaving of the WATCH /
\* GET / MULTI-EXEC steps of concurrent check_send_limit calls and their
\* retries, the values returned in the window sum to at most L (to at most
\* what the window still held when the calls began); the same holds for the
\* window of a domain throttle and the calls for that route and domain.
C1_Conservation ==
    \A c \in Companies :
      /\ \A k \in CompanyKinds :
           LET L == Limits(company[c], throttles, "r1", "a.com")[k]
           IN (L # None /\ L > 0) =>
                CompanyGranted(c)
                  <= Headroom(L, IntOr0(redis0[Key(k, c, "-", "-")]))
      /\ \A t \in targets : \A k \in DomainKinds :
           LET L == Limits(company[c], throttles, t[1], t[2])[k]
           IN (L # None /\ L > 0) =>
                granted[<<c, t[1], t[2]>>]
                  <= Headroom(L, IntOr0(redis0[Key(k, c, t[1], t[2])]))

\* C1 witness: two calls overlap; one has filled the day window to its limit
\* while the other, which read the counter before that, is about to EXEC.
C1_Witness ==
    \E p \in Procs :
      /\ lpc[p] = "exec"
      /\ ldirty[p]
      /\ lrd[p]["day"] = 0
      /\ fix_empty_limit(company["c1"].daylimit) = LimitL
      /\ redis[Key("day", "c1", "-", "-")] = LimitL
      /\ CompanyGranted("c1") = LimitL

\* The case of C2, as the claim words it: a configured limit <= 0 (company
\* window or the matched domain throttle), or the company paused, banned, in
\* review, or unpaid with its trial over.
C2_ZeroCase(c, route, domain) ==
    LET co == company[c]
        dl == DomainLimits(throttles, route, domain)
        num(x) == x # None /\ x # StrVal
    IN \/ (num(co.minlimit) /\ co.minlimit <= 0)
       \/ (num(co.hourlimit) /\ co.hourlimit <= 0)
       \/ (num(co.daylimit) /\ co.daylimit <= 0)
       \/ (num(co.monthlimit) /\ co.monthlimit <= 0)
       \/ (dl.min # None /\ dl.min <= 0)
       \/ (dl.hour # None /\ dl.hour <= 0)
       \/ (dl.day # None /\ dl.day <= 0)
       \/ co.paused \/ co.banned \/ co.inreview
       \/ (~co.paid /\ co.trialend = "past")

\* C2: rate limiter zeroing.  A call made in the zero case never reaches the
\* counter store (no WATCH, no GET, no EXEC): the step that starts it is the
\* step that returns, it returns 0 (the sum of the returned values does not
\* move) and the counters, the credit pools and the limit-hit marker keep
\* their values, whatever "requested" is and whatever the counters hold.
C2_Zeroing ==
    [][ \A p \in Procs :
          /\ (lpc[p] = "idle" /\ lpc'[p] = "watch")
                => ~C2_ZeroCase(larg'[p].cid, larg'[p].route, larg'[p].domain)
          /\ (lpc[p] = "idle" /\ lpc'[p] = "idle" /\ ncalls' = ncalls + 1)
                => (redis' = redis /\ granted' = granted) ]_vars

\* C2 witness: paused company, counters already in use, a call has returned.
C2_Witness ==
    /\ ncalls >= 1
    /\ \A p \in Procs : lpc[p] = "idle"
    /\ \A c \in Companies : \A t \in targets : C2_ZeroCase(c, t[1], t[2])
    /\ company["c1"].paused
    /\ redis = UsedStore("c1", 1)
    /\ CompanyGranted("c1") = 0

\* A number: neither null nor a string.
Numeric(x) == x # None /\ x # StrVal

\* The counter of a window as the store holds it.
Counter(k, a) == IntOr0(redis[Key(k, a.cid, a.route, a.domain)])

\* The limit of a window as the claims word it: the company's field if it
\* is a number, the limit of the matched domain throttle.
Configured(k, a) ==
    LET co == company[a.cid]
        dl == DomainLimits(throttles, a.route, a.domain)
    IN CASE k = "min" -> IF Numeric(co.minlimit) THEN co.minlimit ELSE None
         [] k = "hour" -> IF Numeric(co.hourlimit) THEN co.hourlimit ELSE None
         [] k = "day" -> IF Numeric(co.daylimit) THEN co.daylimit ELSE None
         [] k = "month" -> IF Numeric(co.monthlimit) THEN co.monthlimit ELSE None
         [] k = "dmin" -> dl.min
         [] k = "dhour" -> dl.hour
         [] k = "dday" -> dl.day

CreditTotal(a) == Counter("credits", a) + Counter("credits_expire", a)

\* The case of C19: a configured window counter equals or exceeds its
\* limit, or the company is paid and its two credit pools sum to 0 or less.
C19_Case(a) ==
    \/ \E k \in CompanyKinds \cup DomainKinds :
          Configured(k, a) # None /\ Counter(k, a) >= Configured(k, a)
    \/ (company[a.cid].paid /\ CreditTotal(a) <= 0)

\* Only a day limit is configured for the call.
OnlyDay(a) ==
    /\ \A k \in (CompanyKinds \cup DomainKinds) \ {"day"} : Configured(k, a) = None
    /\ Configured("day", a) # None
    /\ ~company[a.cid].paid
    /\ ~Numeric(company[a.cid].persendlimit)

\* The value the step returns to the caller with arguments a.
ReturnedValue(a) ==
    granted'[<<a.cid, a.route, a.domain>>] - granted[<<a.cid, a.route, a.domain>>]

\* C19: a reached counter blocks without side effects.  A call that
\* returns while a configured window counter (company or matched domain)
\* equals or exceeds its limit, or while a paid company's credit pools sum
\* to 0 or less, returns 0 and leaves every key as it was.  With only a day
\* limit L and c < L sends counted, a request of R returns min(R, L - c)
\* and the day counter becomes c plus that; once the counter is L every
\* later call of the window is in the first case.
C19_Reached ==
    [][\A p \in Procs :
         (lpc[p] = "exec" /\ lpc'[p] = "idle") =>
            LET a == larg[p]
                L == Configured("day", a)
                c == Counter("day", a)
            IN /\ C19_Case(a) => (ReturnedValue(a) = 0 /\ redis' = redis)
               /\ (OnlyDay(a) /\ c < L) =>
                     /\ ReturnedValue(a) = Min2(a.requested, L - c)
                     /\ redis'[Key("day", a.cid, a.route, a.domain)]
                           = c + Min2(a.requested, L - c)]_vars

\* C19 witness: only a day limit, the day counter filled to it by an
\* earlier call, and a later call asking for more has read the counter.
C19_Witness ==
    \E p \in Procs :
      /\ lpc[p] = "exec"
      /\ ~ldirty[p]
      /\ ncalls = 2
      /\ larg[p].requested > 0
      /\ OnlyDay(larg[p])
      /\ redis0 = EmptyStore
      /\ Counter("day", larg[p]) = LimitL
      /\ lrd[p]["day"] = LimitL
      /\ CompanyGranted("c1") = LimitL

\* The least element of a set of integers.
SetMin(S) == CHOOSE x \in S : \A y \in S : x <= y

\* The bounds the claim lists for a call with arguments a.
C20_Bounds(a) ==
    {a.requested}
    \cup (IF Numeric(company[a.cid].persendlimit)
          THEN {company[a.cid].persendlimit} ELSE {})
    \cup (IF company[a.cid].paid THEN {CreditTotal(a)} ELSE {})
    \cup {Configured(k, a) - Counter(k, a) :
            k \in {w \in CompanyKinds \cup DomainKinds : Configured(w, a) # None}}

\* C20: when no blocking condition holds, the call returns exactly the
\* least of: requested, the per-send cap if configured, the credit total if
\* the company is paid, and limit - counter of every configured company
\* window and every configured window of the matched domain throttle; a
\* limit that is null or not a number imposes no bound.
C20_ExactMin ==
    [][\A p \in Procs :
         (lpc[p] = "exec" /\ lpc'[p] = "idle" /\ ~C19_Case(larg[p])) =>
            ReturnedValue(larg[p]) = SetMin(C20_Bounds(larg[p]))]_vars

\* C20 witness: a paid company with 3 credits and a per-send cap of 2; two
\* calls have returned 3 in all: the first was held to the cap (or asked
\* for no more), the second to the credit left.
C20_Witness ==
    /\ \A p \in Procs : lpc[p] = "idle"
    /\ ncalls = 2
    /\ company["c1"].paid
    /\ company["c1"].persendlimit = 2
    /\ redis0 = CreditStore("c1", 1, LimitL - 1)
    /\ CompanyGranted("c1") = LimitL
    /\ redis[Key("credits", "c1", "-", "-")] = 0
    /\ redis[Key("credits_expire", "c1", "-", "-")] = 0

\* A value the call of p read differs from what the store holds now.
StaleRead(p) ==
    LET a == larg[p]
        kinds == ReadKinds(company[a.cid], ArgLimits(p))
    IN \E i \in 1..Len(kinds) :
          lrd[p][kinds[i]] # IntOr0(redis[Key(kinds[i], a.cid, a.route, a.domain)])

\* C21: no lost or stale update in the limiter.  In every state each of
\* the minute, hour, day and month counters of a company equals its initial
\* value plus the sum of the values the calls for the company returned so
\* far; a call that is through its reads while the store holds another
\* value than it read commits nothing with its next step: it starts over
\* with WATCH and fresh reads (or returns 0, having read a reached counter).
C21_NoLostUpdate ==
    /\ [](\A c \in Companies : \A k \in CompanyKinds :
            IntOr0(redis[Key(k, c, "-", "-")])
               = IntOr0(redis0[Key(k, c, "-", "-")]) + CompanyGranted(c))
    /\ [][\A p \in Procs :
            (lpc[p] = "exec" /\ StaleRead(p) /\ lpc'[p] # "exec") =>
               /\ redis' = redis
               /\ \/ lpc'[p] = "watch"
                  \/ (lpc'[p] = "idle" /\ ReturnedValue(larg[p]) = 0)]_vars

\* C21 witness: a call whose EXEC failed is back at WATCH, after another
\* call's grant was added to the counters.
C21_Witness ==
    \E p \in Procs :
      /\ lpc[p] = "watch"
      /\ ldirty[p]
      /\ CompanyGranted("c1") > 0
      /\ redis0 = UsedStore("c1", 1)
      /\ redis[Key("day", "c1", "-", "-")] = 1 + CompanyGranted("c1")

\* The two credit pools of the caller's company after the step.
PoolAfter(k, a) == IntOr0(redis'[Key(k, a.cid, a.route, a.domain)])

\* C22: the credit debit of a paid company.  A call that returns r (no
\* blocking condition) lowers the sum of the two pools by exactly r; the
\* non-expiring pool (credits) pays what it can, the expiring pool
\* (credits_expire) only the part the first cannot cover; both pools stay
\* >= 0 when both were >= 0 before the call.
C22_CreditDebit ==
    [][\A p \in Procs :
         (lpc[p] = "exec" /\ lpc'[p] = "idle" /\ company[larg[p].cid].paid
            /\ ~C19_Case(larg[p])) =>
            LET a == larg[p]
                c == Counter("credits", a)
                e == Counter("credits_expire", a)
                r == ReturnedValue(a)
            IN /\ PoolAfter("credits", a) + PoolAfter("credits_expire", a)
                    = c + e - r
               /\ (c >= 0 /\ e >= 0) =>
                     /\ PoolAfter("credits", a) = (IF r <= c THEN c - r ELSE 0)
                     /\ PoolAfter("credits_expire", a)
                           = (IF r <= c THEN e ELSE e - (r - c))
                     /\ PoolAfter("credits", a) >= 0
                     /\ PoolAfter("credits_expire", a) >= 0]_vars

\* C22 witness: one call took the whole non-expiring pool (1) and the rest
\* of its grant (1 of 2) from the expiring pool.
C22_Witness ==
    /\ ncalls = 1
    /\ \A p \in Procs : lpc[p] = "idle"
    /\ company["c1"].paid
    /\ redis0 = CreditStore("c1", 1, LimitL - 1)
    /\ CompanyGranted("c1") = 2
    /\ redis[Key("credits", "c1", "-", "-")] = 0
    /\ redis[Key("credits_expire", "c1", "-", "-")] = LimitL - 2

\* C34: check_send_limit returns a value in 0..requested, whatever the
\* limits, the per-send cap, the credits and the counters are, and no call
\* lowers a window counter by a grant below zero.
C34_InRange ==
    [][\A p \in Procs :
         (lpc[p] = "exec" /\ lpc'[p] = "idle") =>
            /\ ReturnedValue(larg[p]) >= 0
            /\ ReturnedValue(larg[p]) <= larg[p].requested
            /\ \A k \in AllKeys :
                  k[1] \in CompanyKinds \cup DomainKinds
                     => IntOr0(redis'[k]) >= IntOr0(redis[k])]_vars

\* ------------------------------------------------------------------------
\* Claims about the queue drainer (under Spec)
\* ------------------------------------------------------------------------

RECURSIVE CountIn(_, _)
CountIn(block, d) ==
    IF block = <<>> THEN 0
    ELSE (IF Head(block) = d THEN 1 ELSE 0) + CountIn(Tail(block), d)

RECURSIVE SumTosend(_)
SumTosend(ranges) ==
    IF ranges = <<>> THEN 0 ELSE Head(ranges)[2] + SumTosend(Tail(ranges))

\* The count an entry was created with: the rows of its domain in its block.
CreatedCount(k) ==
    IF blocks[k[3]].campid = k[2] THEN CountIn(blocks[k[3]].rows, k[4]) ELSE 0

\* No cancel request has touched the campaign of the entry.
NoCancel(k) == ~camp[k[2]].canceled

\* C3: queue entry conservation.  For an entry created with count = C and
\* remaining = C and mutated by check_camps alone (no cancel):
\* 1 <= remaining <= count while the row exists, and whenever no drain
\* transaction has the row in its hands the tosend amounts dispatched for it
\* so far sum to count - remaining, to exactly C once the row is deleted.
C3_Conservation ==
    /\ \A e \in queue : 1 <= e.remaining /\ e.remaining <= e.count
    /\ \A k \in EntryKeys :
         (NoCancel(k) /\ CreatedCount(k) > 0 /\ k \notin LockedEntries) =>
            LET rows == {e \in queue : EntryKey(e) = k}
                s == SumTosend(sent[k])
            IN /\ rows = {} => s = CreatedCount(k)
               /\ \A e \in rows : s = e.count - e.remaining

\* The rows of domain d in a block, in order.
DomainRows(block, d) ==
    LET idx == {i \in 1..Len(block) : block[i] = d}
        RECURSIVE Asc(_)
        Asc(S) == IF S = {} THEN <<>>
                  ELSE LET m == CHOOSE x \in S : \A y \in S : x <= y
                       IN <<m>> \o Asc(S \ {m})
    IN Asc(idx)

\* C4: the dispatch ranges of one queue entry never overlap and leave no
\* gap.  The first task of an entry starts at offset 0 and every later one
\* where the one before ended (offset = count - remaining before the
\* dispatch); a task of a one-message-per-round-trip provider is at most
\* MAX_SEND_LIMIT long; a task (offset, tosend) reads rows offset ..
\* offset + tosend - 1 of its domain from the list block.
C4_Ranges ==
    \A k \in EntryKeys :
      NoCancel(k) =>
        \A i \in 1..Len(sent[k]) :
          LET offset == sent[k][i][1]
              tosend == sent[k][i][2]
          IN /\ offset = (IF i = 1 THEN 0
                          ELSE sent[k][i - 1][1] + sent[k][i - 1][2])
             /\ tosend >= 1
             /\ offset + tosend <= CreatedCount(k)
             /\ ReadRows(blocks[k[3]].rows, k[4], offset, tosend, 1, 0, 0)
                  = SubSeq(DomainRows(blocks[k[3]].rows, k[4]), offset + 1,
                           offset + tosend)

\* C5: the drainer never sends more than the limiter authorized.  For the
\* group a drain iteration handled last, the tosend amounts over the
\* group's entries total at most what check_send_limit returned for it.
C5_Authorized ==
    \A p \in Procs : lastgrant[p].total <= lastgrant[p].allowed

\* C6: drainer mutual exclusion.  At most one check_camps invocation is
\* inside the drain loop and it is the holder of the advisory lock; an
\* invocation enters the loop only in a step that takes the free lock, one
\* that finds the lock taken stays out and changes nothing; the lock leaves
\* its holder only in the step that ends the holder's pass.
C6_MutualExclusion ==
    /\ [](/\ Cardinality({p \in Procs : dpc[p] # "idle"}) <= 1
          /\ \A p \in Procs : dpc[p] # "idle" => lock = p)
    /\ [][ \A p \in Procs :
            /\ (dpc[p] = "idle" /\ dpc'[p] # "idle")
                  => (lock = "none" /\ lock' = p /\ queue' = queue
                      /\ camp' = camp)
            /\ (lock = p /\ lock' # p) => (dpc[p] # "idle" /\ dpc'[p] = "idle")
            /\ (dpc[p] = "idle" /\ lock # "none" /\ lock # p)
                  => (dpc'[p] = "idle" /\ lock' # p) ]_vars

\* C6 witness: a pass is in its second iteration (tasks of the first one
\* are dispatched) and still holds the lock while the other invocation is
\* outside and refused.
C6_Witness ==
    /\ lock = "p1"
    /\ dpc["p1"] = "group"
    /\ dpc["p2"] = "idle"
    /\ ~TryLock(lock)
    /\ \E k \in EntryKeys : sent[k] # <<>>
    /\ nenv = 0

\* C8: finished_at of a campaign is written exactly once.  Once a committed
\* finished_at is there, no step of the drainer, a sink queue report, a
\* send task's error handler or CampaignCancel changes it.
C8_FinishedOnce ==
    [][ \A k \in Camps :
          (camp[k].finished_at # None /\ k \notin LockedCamps)
             => camp'[k].finished_at = camp[k].finished_at ]_vars

\* ------------------------------------------------------------------------
\* Claims about the activation of a campaign (under SpecStart)
\* ------------------------------------------------------------------------

\* A successful conditional update for k whose dispatch is still to come.
DispatchPending(k) ==
    \/ \E q \in Requests0 : rpc[q] = "dispatch" /\ rarg[q] = k
    \/ \E p \in Procs : spc[p] = "dispatch" /\ Head(sids[p]) = k

\* C7: campaign activation happens exactly once.  Under every interleaving
\* of CampaignStart requests and run_scheduled ticks for a campaign the
\* conditional update on sent_at succeeds at most once, the one that
\* succeeded dispatches exactly one campaign_start task, and once sent_at
\* is set no later step writes it again.
C7_ActivationOnce ==
    /\ [](\A k \in Camps :
            /\ nact[k] <= 1
            /\ ndisp[k] <= 1
            /\ ~DispatchPending(k) => ndisp[k] = nact[k])
    /\ [][ \A k \in Camps :
            camp[k].sent_at # None => camp'[k].sent_at = camp[k].sent_at ]_vars

\* ------------------------------------------------------------------------
\* Claims about the split loop (under SpecSplit)
\* ------------------------------------------------------------------------

RECURSIVE SumSeq(_)
SumSeq(q) == IF q = <<>> THEN 0 ELSE Head(q) + SumSeq(Tail(q))

\* The number of blocks row i was written to.
BlocksOf(i) == Cardinality({j \in 1..Len(wblocks) :
                              \E n \in 1..Len(wblocks[j].rows) :
                                 wblocks[j].rows[n] = i})

\* C9: list partition completeness.  For N rows and sinks whose pct sum to
\* 100, when the split loop is over every row is in exactly one list block
\* and once in it, the sizes of the blocks (listcnt) sum to N, and the
\* per-domain counts of the send batch sum to N, each domain counted with
\* its rows.
C9_Partition ==
    (wpc = "done" /\ wrows # <<>> /\ SumSeq(wsinks) = 100) =>
       /\ \A i \in 0..(Len(wrows) - 1) : BlocksOf(i) = 1
       /\ SumSeq([j \in 1..Len(wblocks) |-> Len(wblocks[j].rows)]) = Len(wrows)
       /\ SumSeq([j \in 1..Len(wblocks) |-> wblocks[j].listcnt]) = Len(wrows)
       /\ countbydomain[A] + countbydomain[B] = Len(wrows)
       /\ \A d \in Domains : countbydomain[d] = CountIn(wrows, d)

\* C9 witness: the largest list is split over three sinks, each of them with
\* rows, both domains counted.
C9_Witness ==
    /\ wpc = "done"
    /\ Len(wrows) = MaxRows
    /\ SumSeq(wsinks) = 100
    /\ Len(wblocks) = 3
    /\ \A j \in 1..3 : wblocks[j].listcnt > 0
    /\ countbydomain[A] > 0 /\ countbydomain[B] > 0

\* The cumulative pct of the first k sinks.
Cum(k) == SumSeq(SubSeq(wsinks, 1, k))

\* C10: sinks receive contiguous slices cut at the cumulative percentage.
\* The block of sink k holds, in order, exactly the rows i with
\* cum(k-1) <= i * 100 / N < cum(k).
C10_Slices ==
    \A j \in 1..Len(wblocks) :
       LET k == wblocks[j].sink
           n == Len(wrows)
       IN /\ {wblocks[j].rows[x] : x \in 1..Len(wblocks[j].rows)}
               = {i \in 0..(n - 1) : Cum(k - 1) * n <= i * 100 /\ i * 100 < Cum(k) * n}
          /\ \A x \in 1..(Len(wblocks[j].rows) - 1) :
                wblocks[j].rows[x] < wblocks[j].rows[x + 1]

\* C32: percentage normalization.  Whatever the pct of the sinks of the
\* policy sum to, they are brought to 100 before the rows are assigned: when
\* the split loop is over every filtered row is in a list block of some
\* sink, none is left unassigned.
C32_Normalized ==
    (wpc = "done" /\ wrows # <<>>) =>
       \A i \in 0..(Len(wrows) - 1) : BlocksOf(i) >= 1

\* ------------------------------------------------------------------------
\* Claims about event recording (under SpecEvents)
\* ------------------------------------------------------------------------

\* Every handler is through with its delivery.
Quiet == \A h \in Handlers : epc[h] = "idle"

\* The event is one whose unique counter the claim is about: every command
\* of a campaign, the open and click columns of a transactional tag.
Counted == eev.kind = "list" \/ eev.t \in {"open", "click"}

\* The unique counter of the event's command.
UniqueCount ==
    IF eev.kind = "list" THEN cprops[campprops(CmdOf(eev.t))]
    ELSE IF eev.t = "open" THEN tstats.open ELSE tstats.click

\* opened_all / clicked_all, open_all / click_all.
AllCount ==
    IF eev.kind = "list"
    THEN IF eev.t = "open" THEN cprops.opened_all ELSE cprops.clicked_all
    ELSE IF eev.t = "open" THEN tstats.open_all ELSE tstats.click_all

\* A click or unsub on a link whose track flag is unset.
Untracked == eev.t \in {"click", "unsub"} /\ ~eev.track

C12_HardOnce ==
    (Quiet /\ eev.kind = "list" /\ eev.t = "hard" /\ ndeliv = 2 /\ nraised = 0) =>
       /\ cprops.hard = 1
       /\ nsuppnew = 1
       /\ unsublogs[eev.email].bounced

\* C13: suppression consistency.  Once a hard bounce, complaint or
\* unsubscribe of an email is recorded for a campaign of a company, the
\* email is written to no list block of a campaign of that company whose
\* lists are written afterwards.
C13_Suppressed == lateblock = {}

\* Handlers between the guarded insert and the end of the side effects.
InEffects == {h \in Handlers : epc[h] \in {"supp", "count", "hook"}}

\* C14: side effects fire only on the first occurrence.  For a repeated
\* (campaign, email, cmd) write_list sends no webhook, applies no open /
\* click tag rule and makes no suppression upsert on the second and later
\* deliveries; write_txn sends no webhook and writes no suppression record
\* on a repeated (tag, msgid, email, cmd).  Over all deliveries of one event
\* each side effect happens at most once, and only the delivery whose insert
\* inserted the row is ever at the statements that make them.
C14_FirstOnly ==
    /\ nhooks <= 1
    /\ ntagops <= 1
    /\ nsuppops <= 1
    /\ Cardinality(InEffects) <= 1
    /\ \A h \in InEffects : euniq[h]
    /\ (LogKey(eev) \notin camplogs \cup txnlogs) =>
          (nhooks = 0 /\ ntagops = 0 /\ nsuppops = 0 /\ InEffects = {})

\* C14 witness: three deliveries of a campaign's open are over; one webhook
\* was sent and the tag rules were applied once.
C14_Witness ==
    /\ Quiet
    /\ eev.kind = "list" /\ eev.t = "open"
    /\ nwrites = MaxDeliv
    /\ nhooks = 1
    /\ ntagops = 1

\* ------------------------------------------------------------------------
\* Claims about the tracking paths (under SpecTrack)
\* ------------------------------------------------------------------------

\* C15: out-of-order tracking events are not lost.  A request whose
\* tracking id has no send record yet is buffered under the tracking id,
\* and under every interleaving of the request with the provider's
\* delivery-confirmation handler the event is processed exactly once after
\* the send record exists: never twice, never before the record is there,
\* and once the request and the confirmation handler are both through, the
\* record being there, it has been processed.
C15_ExactlyOnce ==
    \A r \in TrkReqs :
       /\ nproc[r] <= 1
       /\ nproc[r] = 1 => trow
       /\ (kpc[r] = "push") => ~HasReq(pending, r)
       /\ (kpc[r] = "done" /\ trow /\ whpc = "idle") => nproc[r] = 1

\* C17: a terminal error ends distribution.  From a state in which a
\* campaign's record carries the error a send task wrote (with its
\* finished_at), no step dispatches a further send task for the campaign,
\* and no step takes the error away.
C17_TerminalError ==
    [][\A k \in Camps :
          (camp[k].error = "error" /\ camp[k].finished_at # None) =>
             /\ \A key \in EntryKeys : key[2] = k => sent'[key] = sent[key]
             /\ camp'[k].error # "none"]_vars

\* C39: dispatch and queue mutation of one drain iteration are atomic.  A
\* step that ends an iteration of check_camps with an exception (the pass
\* goes idle and the exception is logged) either has dispatched none of the
\* iteration's tasks, or leaves the iteration's queue decrements and
\* deletes and its campaign updates in place.
FailedIteration(p) ==
    /\ dpc[p] # "idle"
    /\ dpc'[p] = "idle"
    /\ nenv' = nenv + 1

C39_Atomic ==
    [][\A p \in Procs :
         FailedIteration(p) =>
           \/ tasks' = tasks /\ sent' = sent
           \/ queue' = queue /\ camp' = camp]_vars

\* The queue entry k waits and its company has rate headroom: the row has
\* remaining > 0, its campaign is not canceled, and check_send_limit called
\* now for its route and domain would return more than 0.
HasHeadroom(k) ==
    \E e \in queue :
       /\ EntryKey(e) = k
       /\ e.remaining > 0
       /\ ~camp[k[2]].canceled
       /\ check_send_limit(redis, company[k[1]], throttles, k[1],
                           camp[k[2]].route, k[4], e.remaining).result > 0

\* A task of the entry was handed over, or a cancel took the entry away.
DispatchedOrGone(k) ==
    \/ sent[k] # <<>>
    \/ camp[k[2]].canceled
    \/ ~\E e \in queue : EntryKey(e) = k

\* C36: no starvation in the drainer.  A queue group whose company has
\* rate headroom is eventually dispatched by check_camps, whatever the
\* number of groups ordered before it that are throttled to 0.
C36_NoStarvation ==
    \A k \in EntryKeys : HasHeadroom(k) ~> DispatchedOrGone(k)

\* C24: every drain pass terminates.  A check_camps invocation that holds
\* the lock eventually leaves its loop and releases the lock, also when the
\* limiter returns 0 for groups that still have remaining > 0.
C24_PassTerminates == \A p \in Procs : (lock = p) ~> (lock # p)

\* C25: keyset pagination in a drain pass.  A page read after the first
\* page of the pass (the pass has handled a group, dlast holds its key)
\* holds only groups whose (company, campaign, domain) key is strictly
\* greater than the key of the last group of the page before; so no group
\* is examined twice in one pass.
C25_Keyset ==
    [][\A p \in Procs :
         (dpc[p] = "page" /\ dpc'[p] = "group" /\ dlast[p] # NoKey) =>
            \A i \in 1..Len(dpage'[p]) :
               RowGreater(<<dpage'[p][i].cid, dpage'[p][i].campid,
                            dpage'[p][i].domain>>, dlast[p])]_vars

\* The step is the drainer's handling of one group of its page.
DrainerStep ==
    \E p \in Procs : dpc[p] = "group" /\ dpage'[p] # dpage[p] /\ nenv' = nenv

\* The drainer marks sink x of campaign k drained only when the step leaves
\* no queue entry of k on x.
SinkDrainedRight ==
    \A k \in Camps : \A x \in Sinks :
       (camp[k].sinkstatus[x] # "true" /\ camp'[k].sinkstatus[x] = "true") =>
          ~\E e \in queue' : e.campid = k /\ e.sinkid = x

\* The drainer writes finished_at of k only when every value of its
\* sinkstatus is true and k is not canceled.
FinishedRight ==
    \A k \in Camps :
       camp'[k].finished_at # camp[k].finished_at =>
          /\ \A x \in Sinks : camp'[k].sinkstatus[x] # "false"
          /\ ~camp[k].canceled

\* C26: sink drain and completion.  The drainer sets sinkstatus[s] to true
\* only in a state where no queue entry of the campaign references s, and
\* it writes finished_at only when every value in the campaign's sinkstatus
\* map is true and the campaign is not canceled.
C26_DrainComplete ==
    [][DrainerStep => (SinkDrainedRight /\ FinishedRight)]_vars

\* ------------------------------------------------------------------------
\* Claims about one send (under SpecSend)
\* ------------------------------------------------------------------------

\* C16: once the campaign's canceled flag is set, no provider call of
\* the campaign begins unless the flag was read, and read unset, since
\* the call before it: the flag is re-read before the first send and
\* between the provider calls of one task.
C16_NoLateTransmission == xlate = 0

\* C18: a fatal error of the adapter. For a test (campid "test") the
\* exception reaches the caller and the campaign record is untouched;
\* for a production send (write_err set, raise_err unset) finished_at
\* and error are written and nothing is raised.
C18_FatalError ==
    xfatal =>
       /\ xcall.campid = "test" => xraised /\ xrec = NoRec
       /\ (xcall.write_err /\ ~xcall.raise_err) => ~xraised /\ xrec = ErrRec

\* A production send whose adapter failed after a provider call.
C18_Witness ==
    /\ xfatal
    /\ xcall.write_err
    /\ ~xcall.raise_err
    /\ xsent > 0
    /\ xrec = ErrRec

\* ------------------------------------------------------------------------
\* Claims about the domain throttles (under SpecThrottle)
\* ------------------------------------------------------------------------

\* The field of a throttle row.
FieldOf(dt, f) ==
    CASE f = "min" -> dt.minlimit [] f = "hour" -> dt.hourlimit
      [] f = "day" -> dt.daylimit

\* The values of field f over the active rows of the route whose domain
\* list has an entry that satisfies Match.
FieldValues(f, Match(_)) ==
    { FieldOf(dtrows[i], f) :
        i \in { j \in 1..Len(dtrows) :
                  /\ dtrows[j].active
                  /\ dtrows[j].route = dttarget[1]
                  /\ Numeric(FieldOf(dtrows[j], f))
                  /\ \E n \in 1..Len(dtrows[j].domainsparsed) :
                        Match(dtrows[j].domainsparsed[n]) } }

ExactValues(f) == FieldValues(f, LAMBDA dp : dp = dttarget[2])
GlobValues(f) == FieldValues(f, LAMBDA dp : fnmatch(dttarget[2], dp))

\* C23: domain throttle precedence, per field, over the active throttles
\* of the route: the smallest value among the throttles that list the
\* domain literally, if one of them has a value (even when a glob has a
\* smaller one); otherwise the smallest value among the glob-matching
\* throttles; unlimited if no matching throttle has a value.
C23_Precedence ==
    dtlimits # <<>> =>
       \A f \in {"min", "hour", "day"} :
          dtlimits[1][f] = (IF ExactValues(f) # {} THEN SetMin(ExactValues(f))
                         ELSE IF GlobValues(f) # {} THEN SetMin(GlobValues(f))
                         ELSE None)

\* C23 witness: the literal entry's value is in force although a glob of
\* the same route has a smaller one.
C23_Witness ==
    /\ dtlimits # <<>>
    /\ ExactValues("min") = {2}
    /\ 1 \in GlobValues("min")
    /\ dtlimits[1].min = 2

\* ------------------------------------------------------------------------
\* Claims about the gather barrier (under SpecGather)
\* ------------------------------------------------------------------------

\* The runs gather_complete returned a list to.
Handed == {t \in Runs : ghand[t] # <<>>}

\* The sub-units a task run has completed: its call of gather_complete has
\* added its data row.
CompletedUnits == {t[1] : t \in {r \in Runs : gpc[r] # "idle"}}

\* C27: the gather barrier (completions with remove).  gather_complete
\* hands the result list to at most one caller, to one when every run is
\* through; only after all n sub-units have completed; and the list holds a
\* data record of each of the n sub-units.  Duplicate deliveries of a
\* sub-unit's task and concurrent completions included.
C27_Barrier ==
    gremove =>
       /\ Cardinality(Handed) <= 1
       /\ \A t \in Handed :
             /\ CompletedUnits = Units
             /\ {r[1] : r \in ghand[t][1]} = Units
       /\ (\A u \in Units : \E t \in Runs : t[1] = u /\ gpc[t] = "done")
             => Handed # {}

\* ------------------------------------------------------------------------
\* Claims about one run of an adapter (under SpecRelay)
\* ------------------------------------------------------------------------

\* The messages that went over connection k.
Carried(k) == {j \in 1..Len(asent) : asent[j].conn = k}

\* C28: the connection lease of do_smtprelay_send with msgsperconn = M > 0.
\* Each recipient's message goes over the one connection open at the time;
\* conn_sent <= M in every state; a connection that has carried M messages
\* is closed, so the next message goes over a newly opened one and no
\* connection carries more than M.
C28_Lease ==
    (acall.adapter = "smtprelay" /\ acall.msgsperconn > 0) =>
       /\ conn_sent <= acall.msgsperconn
       /\ conn => conn_sent < acall.msgsperconn
       /\ \A k \in 1..nconn : Cardinality(Carried(k)) <= acall.msgsperconn
       /\ \A j \in 1..Len(asent) :
             /\ asent[j].conn \in 1..nconn
             /\ j > 1 => /\ asent[j].rcpt > asent[j - 1].rcpt
                         /\ asent[j].conn >= asent[j - 1].conn
                         /\ (Cardinality(Carried(asent[j - 1].conn)
                                           \cap 1..(j - 1))
                               = acall.msgsperconn)
                            => asent[j].conn > asent[j - 1].conn

\* Three messages with M = 2: the third went over a second connection.
C28_Witness ==
    /\ acall.adapter = "smtprelay"
    /\ acall.msgsperconn = 2
    /\ Len(asent) = 3
    /\ asent[2].conn = 1
    /\ asent[3].conn = 2
    /\ conn_sent = 1

\* A production run: not a test, raise_err unset.
Production == acall.campid # "test" /\ ~acall.raise_err

\* C29: per-recipient failure containment of the relay and of the relay
\* API.  In a production run in which only connections and sends fail, a
\* failure at recipient i counts one soft bounce for i and the loop goes on
\* with the recipients after i: every recipient the loop has passed has
\* exactly one outcome (sent or soft-bounced), the run ends only after the
\* last recipient, and no error is written onto the campaign.
C29_Containment ==
    (acall.adapter \in PerRecipient /\ Production /\ ~aother) =>
       /\ arec = NoRec
       /\ ~araised
       /\ \A r \in 1..RlyRecips :
             IF r < ai THEN aout[r].send + aout[r].soft = 1
             ELSE aout[r] = NoOut
       /\ Cardinality({r \in 1..RlyRecips : aout[r].soft = 1}) = afailed
       /\ apc = "done" => ai = alen + 1
       /\ acall.adapter = "smtprelay" =>
             {r \in 1..RlyRecips : aout[r].send = 1}
                = {asent[j].rcpt : j \in 1..Len(asent)}

\* A campaign's run over the relay ended: the first and the last recipient
\* soft-bounced, the one between was sent.
C29_Witness ==
    /\ acall.adapter = "smtprelay"
    /\ acall.campid = "k1"
    /\ apc = "done"
    /\ ~aother
    /\ aout[1] = [send |-> 0, soft |-> 1]
    /\ aout[2] = [send |-> 1, soft |-> 0]
    /\ alen = RlyRecips
    /\ aout[RlyRecips] = [send |-> 0, soft |-> 1]

\* A call of a batch adapter was rejected in a campaign's production run.
BatchRejected ==
    /\ acall.adapter \in PerBatch
    /\ Production
    /\ acall.write_err
    /\ afailed > 0

\* C30: a batch-scoped provider failure of a production send (the whole
\* call rejected) is written onto the campaign record as error and
\* finished_at, not only counted as soft bounces of the call's recipients.
C30_BatchError ==
    BatchRejected => arec = ErrRec

RECURSIVE Flat(_)
\* The calls one after the other.
Flat(cs) == IF cs = <<>> THEN <<>> ELSE Head(cs) \o Flat(Tail(cs))

\* The run came to the end of its stream: nothing raised.
RanThrough ==
    /\ apc = "done"
    /\ ~aother
    /\ ~(afailed > 0 /\ SoftRaise(acall.campid, acall.raise_err))

\* C31: batch chunking of the batch adapters (SparkPost, Mailgun).  Every
\* provider call carries between 1 and BatchSize (1000) recipients; the
\* calls taken together are a prefix of the stream, each recipient once and
\* in stream order; a run that came to the end of its stream has put every
\* recipient into a call, whatever the length of the stream.
C31_Chunks ==
    acall.adapter \in PerBatch =>
       /\ \A c \in 1..Len(acalls) :
             Len(acalls[c]) >= 1 /\ Len(acalls[c]) <= BatchSize
       /\ Flat(acalls) = [k \in 1..Len(Flat(acalls)) |-> k]
       /\ Len(Flat(acalls)) >= ai - 1
       /\ Len(Flat(acalls)) <= alen
       /\ RanThrough => Len(Flat(acalls)) = alen

\* A stream of BatchSize + 1 recipients went out in two calls.
C31_Witness ==
    /\ acall.adapter \in PerBatch
    /\ alen = BatchSize + 1
    /\ RanThrough
    /\ Len(acalls) = 2
    /\ Len(acalls[1]) = BatchSize
    /\ Len(acalls[2]) = 1

\* ------------------------------------------------------------------------
\* Claims about the last step of write_campaign_lists (under SpecPublish)
\* ------------------------------------------------------------------------

\* C33: a canceled campaign gets no queue entries.  When CampaignCancel
\* runs before or while write_campaign_lists performs its last step, then
\* once both are through the queue holds no row of the campaign, and with
\* the campaign canceled no sinkstatus was set and no body was written.
C33_NoEntries ==
    (fpc = "done" /\ fcpc = "done") =>
       /\ fqueue = <<>>
       /\ fafter = {}

\* A sink of the campaign has rows that write_campaign_lists has yet to
\* insert.
YetToInsert ==
    \E j \in 1..Len(fjob.sinks) :
       /\ fjob.sinks[j] \in fjob.listed
       /\ NewRows(fjob.sinks[j]) # <<>>
       /\ \/ fpc \in {"check", "body"}
          \/ fpc \in {"sink", "insert"} /\ j >= fsi

\* C35: no premature completion.  The drainer writes finished_at on a
\* campaign that is neither canceled nor errored only when
\* write_campaign_lists has registered every sink and inserted its rows and
\* no row of the campaign is left in the queue, in every interleaving of
\* check_camps with the per-sink loop.
C35_NoPremature ==
    [][(/\ fndrain' > fndrain
        /\ ~fcamp.finished_at
        /\ fcamp'.finished_at
        /\ ~fcamp'.canceled
        /\ fcamp'.error = "")
          => (~YetToInsert' /\ fqueue' = <<>>)]_vars

\* C37: each queue entry matches its list block.  For every row
\* write_campaign_lists inserts, count is the number of rows of the row's
\* domain in the list block its listkey names; the rows are unique per
\* (company, campaign, send batch, domain); and the counts of all rows of
\* the campaign sum to its recipient count.  Also for a policy that splits
\* one send batch over two sinks.
C37_Match ==
    /\ \A i \in 1..Len(fins) :
          fins[i].count = DomainCount(fjob.blocks[fins[i].listkey], fins[i].domain)
    /\ \A i, j \in 1..Len(fins) :
          (fins[i].sendid = fins[j].sendid /\ fins[i].domain = fins[j].domain)
             => i = j
    /\ fcamp.sinks_pushed =>
          SumSeq([i \in 1..Len(fins) |-> fins[i].count]) = RecipientCount

\* ------------------------------------------------------------------------
\* Claims about the deliveries of one send task (under SpecRedeliver)
\* ------------------------------------------------------------------------

\* C38: a redelivered send task sends nothing.  Of the deliveries of a
\* task for one rendered-body key at most one transmits to a recipient, the
\* other finds the body consumed; whether the second delivery runs after
\* the first or both run at once.
C38_OneSender ==
    Cardinality({d \in TaskRuns : btx[d] > 0}) <= 1

\* ------------------------------------------------------------------------
\* Claims about the routing (under SpecRoute)
\* ------------------------------------------------------------------------

\* The task groups whose list writer has run and kept the recipient.
Writers(e) == {i \in 1..Len(rwritten) : e \in rwritten[i]}

\* The rule's domain group takes the recipient's domain: the rule has no
\* domain group, or it has one of the store with a pattern for the domain.
RuleTakes(rule, e) ==
    \/ rule.domaingroup = ""
    \/ /\ DomainGroupDb(rule.domaingroup) # <<>>
       /\ \E i \in 1..Len(DomainGroupDb(rule.domaingroup)[1].domainsplit) :
             fnmatch(e.domain, DomainGroupDb(rule.domaingroup)[1].domainsplit[i])

\* The first rule that takes the recipient is r.
FirstRule(e, r) ==
    /\ RuleTakes(rrules[r], e)
    /\ \A q \in 1..(r - 1) : ~RuleTakes(rrules[q], e)

\* The numbers of the bucket [startpct, endpct) of a task group.
Bucket(g) == {n \in 0..99 : n >= g.startpct /\ n < g.endpct} \cup
             {n \in 100..199 : n >= g.startpct /\ n < g.endpct}

\* The task groups of rule r.
GroupsOf(r) == {i \in 1..Len(rgroups) : rgroups[i].rule = r}

\* Every split of the rule has a positive pct and a policy that resolves,
\* and the rule's domain group is there.
AllSplitsGood(r) ==
    /\ rrules[r].domaingroup # "" => DomainGroupDb(rrules[r].domaingroup) # <<>>
    /\ \A i \in 1..Len(rrules[r].splits) :
          /\ rrules[r].splits[i].pct > 0
          /\ ResolveSinks(rrules[r].splits[i].policy) # <<>>

\* C40: routing assigns each recipient to one task group.  Across all task
\* groups campaign_start creates, a recipient a list writer keeps is kept
\* by exactly one group: the one of the first rule whose domain group
\* takes its domain and of the split whose bucket [startpct, endpct)
\* contains djb2(email) mod 100, and once every writer has run that group
\* has kept it.  The buckets of one rule are pairwise disjoint, and they
\* cover 0..99 when every split of the rule has a positive pct and a
\* policy that resolves.
C40_Routing ==
    /\ \A e \in Recipients :
          /\ Cardinality(Writers(e)) <= 1
          /\ \A i \in Writers(e) :
                /\ FirstRule(e, rgroups[i].rule)
                /\ HashPct(e) \in Bucket(rgroups[i])
          /\ rtpc = "done" =>
                \A i \in 1..Len(rgroups) :
                   (FirstRule(e, rgroups[i].rule) /\ HashPct(e) \in Bucket(rgroups[i]))
                      => i \in Writers(e)
    /\ \A r \in 1..Len(rrules) :
          /\ \A i \in GroupsOf(r) : \A j \in GroupsOf(r) :
                i # j => Bucket(rgroups[i]) \cap Bucket(rgroups[j]) = {}
          /\ (rtpc \in {"write", "done"} /\ AllSplitsGood(r)) =>
                0..99 \subseteq UNION {Bucket(rgroups[i]) : i \in GroupsOf(r)}

\* Two rules with task groups of their own, the first one of three splits
\* scaled up past 100; every writer has run; recipients were kept by a
\* second split and by a group of the second rule, and one by none.
C40_Witness ==
    /\ rtpc = "done"
    /\ Len(rrules) = 2
    /\ AllSplitsGood(1)
    /\ \E i \in GroupsOf(1) : rgroups[i].endpct > 100
    /\ \E e \in Recipients : \E i \in Writers(e) :
          rgroups[i].rule = 1 /\ rgroups[i].split >= 2
    /\ \E e \in Recipients : \E i \in Writers(e) : rgroups[i].rule = 2
    /\ \E e \in Recipients : Writers(e) = {}

====
